---- MODULE Spec2Model ----
(***************************************************************************)
(* Credential rotation layer of services/geminiService.ts: the key pool    *)
(* API_KEYS, the shared cursor currentKeyIndex, and withKeyRotation run by *)
(* several top-level operations interleaved on one event loop.             *)
(***************************************************************************)
EXTENDS Integers, Sequences, FiniteSets, TLC

\* Largest pool explored with concurrent calls (the code reads up to five keys
\* from the environment).
MaxKeys == 2
\* Number of top-level operation calls that may be in flight together.
NumCalls == 2
\* Largest pool explored with the exported operations called one at a time.
MaxPool == 3

Calls == 1..NumCalls

VARIABLES
    API_KEYS,         \* the configured credentials, in order
    currentKeyIndex,  \* the shared cursor (0-based, as in the code)
    pc,               \* per call: "idle", "attempt", "stream", "delay", "done"
    op,               \* per call: the exported operation that was called
    startIndex,       \* per call: local startIndex of withKeyRotation
    triedKeys,        \* per call: local triedKeys of withKeyRotation
    attempts,         \* per call: how many times operation() was invoked
    apiKey,           \* per call: the credential getClient gave the latest attempt
    usedKeys,         \* per call: the credentials its attempts were made with
    limitedKeys,      \* per call: the credentials it was rate-limited on
    raised,           \* per call: what the latest finished attempt raised
    outcome,          \* per call: how withKeyRotation settled
    result,           \* per call: how the called operation settled for its caller
    aborted,          \* per call: abortSignal.aborted
    response,         \* per call: the chunks (or the one text) the provider answered with
    pos,              \* per call: how many chunks the for-await loop has taken
    sink,             \* per call: the texts onChunk was invoked with, in order
    fullResponse,     \* per call: the local fullResponse of analyzeJudgment
    input,            \* parse step on its own: the parts of the response text
    output,           \* parse step on its own: what it returned
    dir,              \* indexer: the names readdirSync lists, in order
    files,            \* indexer: the names that passed the .pdf filter
    cursor,           \* indexer: how many files the loop has visited
    cases,            \* indexer: the records pushed so far
    seen,             \* indexer: the identifiers recorded so far
    index,            \* indexer: the emitted index, <<>> before it is written
    page,             \* page: the component that is mounted, "none" without one
    isLoading,        \* page: useState(false), the busy flag
    abortControllerRef, \* page: useRef(null), <<c>> for the controller of call c
    messages,         \* chat: useState([WELCOME_MSG])
    inputText,        \* chat: useState(''), the state named input
    isListening,      \* chat: useState(false)
    silenceTimer,     \* chat: silenceTimerRef, <<b>> when armed by a closure that saw isLoading = b
    accumulatedText,  \* chat: accumulatedTextRef
    timeouts,         \* chat: the pending setTimeout(() => handleSend(text), 100) callbacks
    toggleClosure,    \* chat: the isLoading that the memoized toggleListening closes over
    file,             \* analyzer: useState(null), <<f>> for a selected file
    isAnalyzing,      \* analyzer: useState(false)
    analysis,         \* analyzer: useState('')
    reader            \* analyzer: the FileReader of handleAnalyze, "EMPTY" or "LOADING"

attempt == <<attempts, apiKey, usedKeys>>

stream == <<aborted, response, pos, sink, fullResponse>>

\* what the service calls work on
service == <<API_KEYS, currentKeyIndex, pc, op, startIndex, triedKeys, attempt,
             limitedKeys, raised, outcome, result, stream>>

\* what runs without the provider: the parse step and the batch indexer
offline == <<input, output, dir, files, cursor, cases, seen, index>>

\* the state of a page component: its useState and useRef values
chat == <<messages, inputText, isListening, silenceTimer, accumulatedText, timeouts,
          toggleClosure>>

analyzer == <<file, isAnalyzing, analysis, reader>>

ui == <<page, isLoading, abortControllerRef, chat, analyzer>>

vars == <<service, offline, ui>>

----------------------------------------------------------------------------
\* Error messages, character by character, so that String.includes is computed.

MsgApiKeyMissing ==
    <<"A","P","I","_","K","E","Y"," ","i","s"," ","m","i","s","s","i","n","g",
      "."," ","P","l","e","a","s","e"," ","s","e","t"," ","i","t"," ","i","n",
      " ","t","h","e"," ","e","n","v","i","r","o","n","m","e","n","t",".">>

MsgAllKeysExhausted ==
    <<"A","l","l"," ","A","P","I"," ","k","e","y","s"," ","h","a","v","e"," ",
      "h","i","t"," ","t","h","e","i","r"," ","r","a","t","e"," ","l","i","m",
      "i","t","."," ","P","l","e","a","s","e"," ","w","a","i","t"," ","a"," ",
      "m","i","n","u","t","e"," ","a","n","d"," ","t","r","y"," ","a","g","a",
      "i","n",".">>

Msg429 == <<"4","2","9">>

MsgResourceExhausted ==
    <<"R","E","S","O","U","R","C","E","_","E","X","H","A","U","S","T","E",
      "D">>

\* s.includes(sub)
Includes(s, sub) ==
    \E i \in 1..(Len(s) - Len(sub) + 1) : SubSeq(s, i, i + Len(sub) - 1) = sub

\* err?.field === v, for a field the error object may lack
FieldIs(err, f, v) == f \in DOMAIN err /\ err[f] = v

\* err?.message?.includes(sub)
MessageIncludes(err, sub) == "message" \in DOMAIN err /\ Includes(err.message, sub)

\* Variant: the numeric code field is not looked at.
is429ErrorNoCode(err) ==
    \/ MessageIncludes(err, Msg429)
    \/ MessageIncludes(err, MsgResourceExhausted)
    \/ FieldIs(err, "status", 429)
    \/ FieldIs(err, "httpStatusCode", 429)

is429Error(err) ==
    \/ MessageIncludes(err, Msg429)
    \/ MessageIncludes(err, MsgResourceExhausted)
    \/ FieldIs(err, "status", 429)
    \/ FieldIs(err, "code", 429)
    \/ FieldIs(err, "httpStatusCode", 429)

\* Variant: the rate-limit test takes precedence over the cancellation test.
isAbortErrorUnlessRateLimit(err) ==
    FieldIs(err, "name", "AbortError") /\ ~is429Error(err)

\* if (err?.name === 'AbortError') throw err;
isAbortError(err) == FieldIs(err, "name", "AbortError")

\* new Error("API_KEY is missing. ...") of getClient
ConfigError == [name |-> "Error", message |-> MsgApiKeyMissing]

\* new Error('All API keys have hit their rate limit. ...') of withKeyRotation
ExhaustedError == [name |-> "Error", message |-> MsgAllKeysExhausted]

\* Failures an attempt can end with (thrown by the provider SDK or by the
\* operation body): cancellations, one of them carrying "429" in its message
\* and one a 429 status; the provider's rate-limit error; a network error.
ProviderErrors ==
    { [name |-> "AbortError", message |-> <<"A","b","o","r","t","e","d">>],
      [name |-> "AbortError", message |-> <<"a","b","o","r","t"," ","4","2","9">>],
      [name |-> "AbortError", message |-> <<"a","b","o","r","t">>, status |-> 429],
      [name |-> "ApiError", message |-> <<"4","2","9"," ","q","u","o","t","a">>,
       status |-> 429],
      [name |-> "TypeError", message |-> <<"f","e","t","c","h">>] }

\* new DOMException('Aborted', 'AbortError')
AbortedException ==
    [name |-> "AbortError", message |-> <<"A","b","o","r","t","e","d">>]

\* JavaScript values as JSON.parse builds them (and the literals [] and null)
JsNull == [type |-> "null"]
JsBool(b) == [type |-> "boolean", bool |-> b]
JsString(chars) == [type |-> "string", chars |-> chars]
JsNumber(digits) == [type |-> "number", digits |-> digits]
JsArray(items) == [type |-> "array", items |-> items]
JsObject(members) == [type |-> "object", members |-> members]

NoError == [name |-> "none"]
Pending == [kind |-> "pending"]
Returned(v) == [kind |-> "return", val |-> v]
Thrown(err) == [kind |-> "throw", err |-> err]

----------------------------------------------------------------------------
\* The exported operations, and the bare `operation` argument of
\* withKeyRotation when the rotation layer is exercised on its own.

StreamingOps ==
    { "streamChatResponse", "snapAndSolve", "generateJurisdictionAnalysis",
      "generateActionPlan", "simplifyLegalText", "analyzeScam",
      "generateCaseStudy" }

Ops ==
    StreamingOps \cup
    { "analyzeDocument", "compareLaws", "generateLegalFlowchart",
      "analyzeJudgment", "aiSearchJudgments" }

GenericOps == { "operation" }

\* Variant: every operation degrades to an empty result, as the search does.
OperationCatchSwallow(o, err) == Returned(JsArray(<<>>))

\* The catch block around withKeyRotation in each exported operation:
\* aiSearchJudgments returns [], every other one rethrows (analyzeDocument
\* and compareLaws have no catch block at all).
OperationCatch(o, err) ==
    IF o = "aiSearchJudgments" THEN Returned(JsArray(<<>>)) ELSE Thrown(err)

\* What the operation resolves with once withKeyRotation resolved with val:
\* the streaming operations return nothing, analyzeJudgment the parse of what
\* it accumulated, the others what the operation body returned.
OperationReturn(o, val) ==
    IF o \in StreamingOps THEN Returned("undefined")
    ELSE IF o = "analyzeJudgment" THEN Returned([parsed |-> val])
    ELSE Returned(val)

OperationResult(o, out) ==
    IF o \in GenericOps THEN out
    ELSE IF out.kind = "throw" THEN OperationCatch(o, out.err)
    ELSE OperationReturn(o, out.val)

----------------------------------------------------------------------------
\* The rotation layer.

N == Len(API_KEYS)

\* API_KEYS[currentKeyIndex] as getClient reads it
KeyAt(keys, idx) == IF idx + 1 \in DOMAIN keys THEN keys[idx + 1] ELSE "undefined"

getClient(keys, idx) ==
    IF Len(keys) = 0 THEN [ok |-> FALSE, err |-> ConfigError]
    ELSE [ok |-> TRUE, apiKey |-> KeyAt(keys, idx)]

\* Variant: the cursor is never advanced.
rotateKeyStay(idx, n) == idx

\* Variant: the cursor is advanced without wrapping.
rotateKeyNoModulo(idx, n) == idx + 1

\* the value rotateKey leaves in currentKeyIndex
rotateKey(idx, n) ==
    LET nextIndex == (idx + 1) % n
    IN  IF nextIndex = idx /\ n = 1 THEN idx ELSE nextIndex

\* while (triedKeys < API_KEYS.length)
WhileCond(tried, n) == tried < n

\* Variant: gives up one credential early.
RetryCondEarly(tried, n) == tried + 1 < n

\* Variant: retries once more after the last credential.
RetryCondLate(tried, n) == tried <= n

\* if (triedKeys < API_KEYS.length), after triedKeys++
RetryCond(tried, n) == tried < n

InFlight(c) == pc[c] \in {"attempt", "delay"}

\* withKeyRotation settles with out; the operation that called it settles too.
Settle(c, o, tried, out) ==
    /\ pc' = [pc EXCEPT ![c] = "done"]
    /\ triedKeys' = [triedKeys EXCEPT ![c] = tried]
    /\ outcome' = [outcome EXCEPT ![c] = out]
    /\ result' = [result EXCEPT ![c] = OperationResult(o, out)]
    /\ UNCHANGED currentKeyIndex

\* catch (err) { ... } of withKeyRotation
CatchBlock(c, o, tried, err) ==
    /\ raised' = [raised EXCEPT ![c] = err]
    /\ IF isAbortError(err) THEN Settle(c, o, tried, Thrown(err))
       ELSE IF is429Error(err)
       THEN IF RetryCond(tried + 1, N)
            THEN /\ triedKeys' = [triedKeys EXCEPT ![c] = tried + 1]
                 /\ currentKeyIndex' = rotateKey(currentKeyIndex, N)
                 /\ pc' = [pc EXCEPT ![c] = "delay"]
                 /\ UNCHANGED <<outcome, result>>
            ELSE Settle(c, o, tried + 1, Thrown(err))
       ELSE Settle(c, o, tried, Thrown(err))

\* if (abortSignal?.aborted) throw ..., which only generateCaseStudy has
ThrowsIfAborted(o, sig) == o = "generateCaseStudy" /\ sig

\* One pass through the top of the while loop: the loop test, then
\* operation(), which runs getClient() before it first suspends.
LoopTop(c, o, tried) ==
    IF WhileCond(tried, N)
    THEN LET client == getClient(API_KEYS, currentKeyIndex)
         IN  IF client.ok
             THEN /\ attempts' = [attempts EXCEPT ![c] = @ + 1]
                  /\ apiKey' = [apiKey EXCEPT ![c] = client.apiKey]
                  /\ usedKeys' = [usedKeys EXCEPT ![c] = @ \cup {client.apiKey}]
                  /\ IF ThrowsIfAborted(o, aborted[c])
                     THEN CatchBlock(c, o, tried, AbortedException)
                     ELSE /\ pc' = [pc EXCEPT ![c] = "attempt"]
                          /\ triedKeys' = [triedKeys EXCEPT ![c] = tried]
                          /\ raised' = [raised EXCEPT ![c] = NoError]
                          /\ UNCHANGED <<currentKeyIndex, outcome, result>>
             ELSE /\ UNCHANGED attempt
                  /\ CatchBlock(c, o, tried, client.err)
    ELSE /\ UNCHANGED attempt
         /\ raised' = raised
         /\ Settle(c, o, tried, Thrown(ExhaustedError))

\* [GEMINI_API_KEY_1, ...].filter(Boolean) with n keys set
Pool(n) == [i \in 1..n |-> <<"K", i>>]

InitPool(maxn) ==
    /\ API_KEYS \in { Pool(n) : n \in 0..maxn }
    /\ currentKeyIndex = 0
    /\ pc = [c \in Calls |-> "idle"]
    /\ op = [c \in Calls |-> "none"]
    /\ startIndex = [c \in Calls |-> 0]
    /\ triedKeys = [c \in Calls |-> 0]
    /\ attempts = [c \in Calls |-> 0]
    /\ apiKey = [c \in Calls |-> "none"]
    /\ usedKeys = [c \in Calls |-> {}]
    /\ limitedKeys = [c \in Calls |-> {}]
    /\ raised = [c \in Calls |-> NoError]
    /\ outcome = [c \in Calls |-> Pending]
    /\ result = [c \in Calls |-> Pending]
    /\ aborted = [c \in Calls |-> FALSE]
    /\ response = [c \in Calls |-> <<>>]
    /\ pos = [c \in Calls |-> 0]
    /\ sink = [c \in Calls |-> <<>>]
    /\ fullResponse = [c \in Calls |-> <<>>]

\* the parse step and the indexer have not run
OfflineIdle ==
    /\ input = <<>> /\ output = Pending
    /\ dir = <<>> /\ files = <<>> /\ cursor = 0
    /\ cases = <<>> /\ seen = {} /\ index = <<>>

\* no page component is mounted
ChatIdle ==
    /\ messages = <<>> /\ inputText = <<>>
    /\ isListening = FALSE /\ silenceTimer = <<>> /\ accumulatedText = <<>>
    /\ timeouts = {} /\ toggleClosure = FALSE

AnalyzerIdle ==
    file = <<>> /\ isAnalyzing = FALSE /\ analysis = <<>> /\ reader = "EMPTY"

UiIdle ==
    /\ page = "none"
    /\ isLoading = FALSE
    /\ abortControllerRef = <<>>
    /\ ChatIdle
    /\ AnalyzerIdle

Init == InitPool(MaxKeys) /\ OfflineIdle /\ UiIdle

InitOps == InitPool(MaxPool) /\ OfflineIdle /\ UiIdle

\* A caller invokes operation o: withKeyRotation runs up to its first await.
Call(c, o) ==
    /\ pc[c] = "idle"
    /\ op' = [op EXCEPT ![c] = o]
    /\ startIndex' = [startIndex EXCEPT ![c] = currentKeyIndex]
    /\ LoopTop(c, o, 0)
    /\ UNCHANGED <<offline, API_KEYS, limitedKeys, stream>>

\* The awaited operation() resolves.
AttemptSucceed(c) ==
    /\ pc[c] = "attempt"
    /\ Settle(c, op[c], triedKeys[c],
              Returned([attempt |-> attempts[c], key |-> apiKey[c]]))
    /\ UNCHANGED <<offline, API_KEYS, op, startIndex, attempt, limitedKeys, raised, stream>>

\* The awaited operation() rejects with err.
AttemptFail(c, err) ==
    /\ pc[c] = "attempt"
    /\ CatchBlock(c, op[c], triedKeys[c], err)
    /\ limitedKeys' = [limitedKeys EXCEPT ![c] =
                          IF ~isAbortError(err) /\ is429Error(err)
                          THEN @ \cup {apiKey[c]} ELSE @]
    /\ UNCHANGED <<offline, API_KEYS, op, startIndex, attempt, stream>>

\* The 300 ms pause ends: `continue`.
Retry(c) ==
    /\ pc[c] = "delay"
    /\ LoopTop(c, op[c], triedKeys[c])
    /\ UNCHANGED <<offline, API_KEYS, op, startIndex, limitedKeys, stream>>

\* The caller has taken the result; the locals of the call are gone.
Return(c) ==
    /\ pc[c] = "done"
    /\ pc' = [pc EXCEPT ![c] = "idle"]
    /\ op' = [op EXCEPT ![c] = "none"]
    /\ startIndex' = [startIndex EXCEPT ![c] = 0]
    /\ triedKeys' = [triedKeys EXCEPT ![c] = 0]
    /\ attempts' = [attempts EXCEPT ![c] = 0]
    /\ apiKey' = [apiKey EXCEPT ![c] = "none"]
    /\ usedKeys' = [usedKeys EXCEPT ![c] = {}]
    /\ limitedKeys' = [limitedKeys EXCEPT ![c] = {}]
    /\ raised' = [raised EXCEPT ![c] = NoError]
    /\ outcome' = [outcome EXCEPT ![c] = Pending]
    /\ result' = [result EXCEPT ![c] = Pending]
    /\ aborted' = [aborted EXCEPT ![c] = FALSE]
    /\ response' = [response EXCEPT ![c] = <<>>]
    /\ pos' = [pos EXCEPT ![c] = 0]
    /\ sink' = [sink EXCEPT ![c] = <<>>]
    /\ fullResponse' = [fullResponse EXCEPT ![c] = <<>>]
    /\ UNCHANGED <<offline, API_KEYS, currentKeyIndex>>

\* NumCalls callers of the rotation layer, interleaved on the event loop.
Next ==
    \E c \in Calls :
        \/ \E o \in GenericOps : Call(c, o) /\ UNCHANGED ui
        \/ AttemptSucceed(c) /\ UNCHANGED ui
        \/ \E err \in ProviderErrors : AttemptFail(c, err) /\ UNCHANGED ui
        \/ Retry(c) /\ UNCHANGED ui

Spec == Init /\ [][Next]_vars

\* The exported operations, called one after the other.
NextOps ==
    \/ \E o \in Ops : Call(1, o) /\ UNCHANGED ui
    \/ AttemptSucceed(1) /\ UNCHANGED ui
    \/ \E err \in ProviderErrors : AttemptFail(1, err) /\ UNCHANGED ui
    \/ Retry(1) /\ UNCHANGED ui
    \/ Return(1) /\ UNCHANGED ui

SpecOps == InitOps /\ [][NextOps]_vars

----------------------------------------------------------------------------
\* Response post-processing. Texts are sequences of characters.

WS == { " ", "\n", "\t" }

Digits == { "0", "1", "2", "3", "4", "5", "6", "7", "8", "9" }

\* the backquote character (the string syntax cannot hold it)
BQ == "bq"

Fence == <<BQ, BQ, BQ>>

\* the character at position i, "" past the end
Ch(s, i) == IF i \in 1..Len(s) THEN s[i] ELSE ""

\* the first position >= i that holds no white space (Len(s) + 1 if none)
SkipWs(s, i) ==
    LET rest == { j \in i..Len(s) : s[j] \notin WS }
    IN  IF rest = {} THEN Len(s) + 1
        ELSE CHOOSE j \in rest : \A k \in rest : j <= k

\* s.trimEnd()
TrimEnd(s) ==
    LET solid == { j \in 1..Len(s) : s[j] \notin WS }
    IN  IF solid = {} THEN <<>>
        ELSE SubSeq(s, 1, CHOOSE j \in solid : \A k \in solid : k <= j)

\* s.trim()
Trim(s) == TrimEnd(SubSeq(s, SkipWs(s, 1), Len(s)))

StartsWith(s, p) == Len(s) >= Len(p) /\ SubSeq(s, 1, Len(p)) = p

EndsWith(s, p) == Len(s) >= Len(p) /\ SubSeq(s, Len(s) - Len(p) + 1, Len(s)) = p

ParseFail == [ok |-> FALSE, val |-> JsNull, next |-> 0]
ParseOk(v, next) == [ok |-> TRUE, val |-> v, next |-> next]

\* a string literal starting at the quote at position i (no escapes)
ParseString(s, i) ==
    LET closing == { j \in (i + 1)..Len(s) : s[j] = "\"" }
    IN  IF Ch(s, i) # "\"" \/ closing = {} THEN ParseFail
        ELSE LET j == CHOOSE x \in closing : \A y \in closing : x <= y
             IN  ParseOk(JsString(SubSeq(s, i + 1, j - 1)), j + 1)

\* an unsigned integer literal starting at position i
ParseNumber(s, i) ==
    LET stops == { j \in i..(Len(s) + 1) : Ch(s, j) \notin Digits }
        j == CHOOSE x \in stops : \A y \in stops : x <= y
    IN  IF j = i THEN ParseFail ELSE ParseOk(JsNumber(SubSeq(s, i, j - 1)), j)

\* the characters of p stand in s from position i on
LiteralAt(s, i, p) ==
    i >= 1 /\ i + Len(p) - 1 <= Len(s) /\ SubSeq(s, i, i + Len(p) - 1) = p

RECURSIVE ParseValue(_, _), ParseItems(_, _, _), ParseMembers(_, _, _)

\* a JSON value starting at position i
ParseValue(s, i) ==
    LET c == Ch(s, i)
        j == SkipWs(s, i + 1)
    IN  IF c = "\"" THEN ParseString(s, i)
        ELSE IF LiteralAt(s, i, <<"n","u","l","l">>) THEN ParseOk(JsNull, i + 4)
        ELSE IF LiteralAt(s, i, <<"t","r","u","e">>) THEN ParseOk(JsBool(TRUE), i + 4)
        ELSE IF LiteralAt(s, i, <<"f","a","l","s","e">>)
        THEN ParseOk(JsBool(FALSE), i + 5)
        ELSE IF c \in Digits THEN ParseNumber(s, i)
        ELSE IF c = "["
        THEN IF Ch(s, j) = "]" THEN ParseOk(JsArray(<<>>), j + 1)
             ELSE ParseItems(s, j, <<>>)
        ELSE IF c = "{"
        THEN IF Ch(s, j) = "}" THEN ParseOk(JsObject(<<>>), j + 1)
             ELSE ParseMembers(s, j, <<>>)
        ELSE ParseFail

\* the elements of an array from position i on, acc holding those before
ParseItems(s, i, acc) ==
    LET r == ParseValue(s, i)
        j == SkipWs(s, r.next)
    IN  IF ~r.ok THEN ParseFail
        ELSE IF Ch(s, j) = "," THEN ParseItems(s, SkipWs(s, j + 1), Append(acc, r.val))
        ELSE IF Ch(s, j) = "]" THEN ParseOk(JsArray(Append(acc, r.val)), j + 1)
        ELSE ParseFail

\* the members of an object from position i on, acc holding those before
ParseMembers(s, i, acc) ==
    LET k == ParseString(s, i)
        j == SkipWs(s, k.next)
        r == ParseValue(s, SkipWs(s, j + 1))
        e == SkipWs(s, r.next)
        m == Append(acc, <<k.val.chars, r.val>>)
    IN  IF ~k.ok \/ Ch(s, j) # ":" THEN ParseFail
        ELSE IF ~r.ok THEN ParseFail
        ELSE IF Ch(s, e) = "," THEN ParseMembers(s, SkipWs(s, e + 1), m)
        ELSE IF Ch(s, e) = "}" THEN ParseOk(JsObject(m), e + 1)
        ELSE ParseFail

\* JSON.parse(s): [ok |-> FALSE] stands for the SyntaxError it throws
JSONParse(s) ==
    LET r == ParseValue(s, SkipWs(s, 1))
    IN  IF r.ok /\ SkipWs(s, r.next) = Len(s) + 1 THEN [ok |-> TRUE, val |-> r.val]
        ELSE [ok |-> FALSE, val |-> JsNull]

\* Variant: the fence is stripped without its language tag.
StripOpeningFenceNoTag(s) ==
    LET body == SubSeq(s, 4, Len(s))
    IN  IF StartsWith(s, Fence) THEN SubSeq(body, SkipWs(body, 1), Len(body)) ELSE s

\* s.replace(/^```(?:json)?\s*/, '')
StripOpeningFence(s) ==
    LET body == SubSeq(s, 4, Len(s))
        tagged == StartsWith(body, <<"j","s","o","n">>)
        rest == IF tagged THEN SubSeq(body, 5, Len(body)) ELSE body
    IN  IF StartsWith(s, Fence) THEN SubSeq(rest, SkipWs(rest, 1), Len(rest)) ELSE s

\* s.replace(/\s*```$/, '')
StripClosingFence(s) ==
    IF EndsWith(s, Fence) THEN TrimEnd(SubSeq(s, 1, Len(s) - 3)) ELSE s

\* the parse step of analyzeJudgment, applied to the accumulated text
ParseJudgment(text) ==
    LET trimmed == Trim(text)
        cleaned == IF StartsWith(trimmed, Fence)
                   THEN StripClosingFence(StripOpeningFence(trimmed))
                   ELSE trimmed
        r == JSONParse(cleaned)
    IN  IF r.ok THEN r.val ELSE JsNull

\* the inner try/catch of aiSearchJudgments, applied to response.text
ParseSearch(text) ==
    LET raw == IF Trim(text) = <<>> THEN <<"[", "]">> ELSE Trim(text)
        r == JSONParse(raw)
    IN  IF r.ok THEN r.val ELSE JsArray(<<>>)

Marker == <<"-","-","-">> \o
          <<"E","X","P","L","A","N","A","T","I","O","N">> \o
          <<"-","-","-">>

\* positions at which sep occurs in s
Occurrences(s, sep) ==
    { i \in 1..(Len(s) - Len(sep) + 1) : SubSeq(s, i, i + Len(sep) - 1) = sep }

RECURSIVE Split(_, _)

\* s.split(sep), for a non-empty sep
Split(s, sep) ==
    LET occ == Occurrences(s, sep)
        i == CHOOSE x \in occ : \A y \in occ : x <= y
    IN  IF occ = {} THEN <<s>>
        ELSE <<SubSeq(s, 1, i - 1)>> \o Split(SubSeq(s, i + Len(sep), Len(s)), sep)

\* the lower-case form of the letters of "mermaid"
Lower(c) ==
    CASE c = "M" -> "m" [] c = "E" -> "e" [] c = "R" -> "r" [] c = "A" -> "a"
      [] c = "I" -> "i" [] c = "D" -> "d" [] OTHER -> c

\* s.replace(/^```mermaid\s*/i, '')
StripMermaidFence(s) ==
    LET tag == <<"m","e","r","m","a","i","d">>
        head == SubSeq(s, 4, 10)
        rest == SubSeq(s, 11, Len(s))
    IN  IF StartsWith(s, Fence) /\ Len(head) = 7
           /\ [k \in 1..7 |-> Lower(head[k])] = tag
        THEN SubSeq(rest, SkipWs(rest, 1), Len(rest))
        ELSE s

\* ^ under the m flag: the start of the text or of a line
AtLineStart(s, i) == i = 1 \/ (i - 1 \in 1..Len(s) /\ s[i - 1] = "\n")

\* $ under the m flag: the end of the text or of a line
AtLineEnd(s, i) == i = Len(s) + 1 \/ (i \in 1..Len(s) /\ s[i] = "\n")

FenceAt(s, i) == i + 2 <= Len(s) /\ SubSeq(s, i, i + 2) = Fence

RECURSIVE StripLineStartFences(_, _), StripLineEndFences(_, _)

\* s.replace(/^```\s*/gm, ''), from position i on
StripLineStartFences(s, i) ==
    IF i > Len(s) THEN <<>>
    ELSE IF AtLineStart(s, i) /\ FenceAt(s, i)
    THEN StripLineStartFences(s, SkipWs(s, i + 3))
    ELSE <<s[i]>> \o StripLineStartFences(s, i + 1)

\* s.replace(/\s*```$/gm, ''), from position i on
StripLineEndFences(s, i) ==
    LET k == SkipWs(s, i)
    IN  IF i > Len(s) THEN <<>>
        ELSE IF FenceAt(s, k) /\ AtLineEnd(s, k + 3)
        THEN StripLineEndFences(s, k + 3)
        ELSE <<s[i]>> \o StripLineEndFences(s, i + 1)

\* parts[1] of the split, '' when there is none
SecondPart(raw, parts) == IF Len(parts) >= 2 THEN parts[2] ELSE <<>>

\* the post-processing of generateLegalFlowchart, applied to response.text
FlowchartSplit(raw) ==
    LET parts == Split(raw, Marker)
        mermaidCode == Trim(parts[1])
        explanation == Trim(SecondPart(raw, parts))
        cleaned == Trim(StripLineEndFences(
                       StripLineStartFences(StripMermaidFence(mermaidCode), 1), 1))
    IN  [mermaid |-> cleaned, explanation |-> explanation]

----------------------------------------------------------------------------
\* Streaming and cancellation: the operations that take an abortSignal.

\* Largest pool explored with the streaming operations.
StreamPool == 2

\* the operations with a for-await loop over generateContentStream
StreamOps == StreamingOps \cup { "analyzeJudgment" }

\* the operations that take an abortSignal and make one generateContent call
GenerateOps == { "generateLegalFlowchart", "aiSearchJudgments" }

CancellableOps == StreamOps \cup GenerateOps

Hel == <<"H", "e", "l">>

lo == <<"l", "o">>

\* Streams the provider may open: each is the sequence of chunk.text values
\* (an empty one stands for a chunk without text).
Responses ==
    { <<Hel, lo>>,
      << <<"{">>, <<>>, <<"}">> >>,
      << <<"{", "}">>, <<"\n">> >> }

\* response.text values a generateContent call may resolve with
GenerateTexts ==
    { <<"A","\n">> \o Marker \o <<"\n","B">>,
      <<"A">> \o Marker \o <<"B">> \o Marker \o <<"C">>,
      Fence \o <<"m","e","r","m","a","i","d","\n","A","\n">> \o Fence \o <<"\n">> \o Marker \o <<" ","B">>,
      <<" ","A"," ">>,
      <<"[","\"","a","\"","]">>,
      <<"[","1","]">> }

RECURSIVE Concat(_)

\* the chunks joined into one text
Concat(chunks) ==
    IF chunks = <<>> THEN <<>> ELSE Head(chunks) \o Concat(Tail(chunks))

\* if (abortSignal?.aborted) break;
Break(sig) == sig

\* Variant: the sink is invoked before the signal is looked at.
DeliverAfterAbort(sig, chunk) == chunk # <<>>

\* if (chunk.text), reached only when the loop did not break
Deliver(sig, chunk) == ~Break(sig) /\ chunk # <<>>

\* fullResponse += chunk.text, which only analyzeJudgment has
Accumulates(o) == o = "analyzeJudgment"

\* The caller triggers the abort signal of a call that is in flight.
Abort(c) ==
    /\ pc[c] \in {"attempt", "stream", "delay"}
    /\ ~aborted[c]
    /\ aborted' = [aborted EXCEPT ![c] = TRUE]
    /\ UNCHANGED <<offline, API_KEYS, currentKeyIndex, pc, op, startIndex, triedKeys,
                   attempt, limitedKeys, raised, outcome, result,
                   response, pos, sink, fullResponse>>

\* await ai.models.generateContentStream(...) resolves with a stream.
StreamOpen(c, resp) ==
    /\ pc[c] = "attempt"
    /\ op[c] \in StreamOps
    /\ pc' = [pc EXCEPT ![c] = "stream"]
    /\ response' = [response EXCEPT ![c] = resp]
    /\ pos' = [pos EXCEPT ![c] = 0]
    /\ UNCHANGED <<offline, API_KEYS, currentKeyIndex, op, startIndex, triedKeys,
                   attempt, limitedKeys, raised, outcome, result,
                   aborted, sink, fullResponse>>

\* The loop is left without an error: operation() and withKeyRotation resolve
\* with nothing; analyzeJudgment goes on to parse what it accumulated (full).
StreamResolve(c, full) ==
    /\ pc' = [pc EXCEPT ![c] = "done"]
    /\ outcome' = [outcome EXCEPT ![c] = Returned("undefined")]
    /\ result' = [result EXCEPT ![c] =
                     IF Accumulates(op[c]) THEN Returned(ParseJudgment(full))
                     ELSE OperationReturn(op[c], "undefined")]

\* The stream yields its next chunk: one pass through the loop body.
ReadChunk(c) ==
    /\ pc[c] = "stream"
    /\ pos[c] < Len(response[c])
    /\ LET chunk == response[c][pos[c] + 1]
           delivered == Deliver(aborted[c], chunk)
       IN  /\ pos' = [pos EXCEPT ![c] = @ + 1]
           /\ sink' = [sink EXCEPT ![c] = IF delivered THEN Append(@, chunk) ELSE @]
           /\ fullResponse' = [fullResponse EXCEPT ![c] =
                                  IF delivered /\ Accumulates(op[c])
                                  THEN @ \o chunk ELSE @]
           /\ IF Break(aborted[c])
              THEN StreamResolve(c, fullResponse'[c])
              ELSE UNCHANGED <<pc, outcome, result>>
    /\ UNCHANGED <<offline, API_KEYS, currentKeyIndex, op, startIndex, triedKeys,
                   attempt, limitedKeys, raised, aborted, response>>

\* The stream ends: the loop is left normally.
StreamEnd(c) ==
    /\ pc[c] = "stream"
    /\ pos[c] = Len(response[c])
    /\ StreamResolve(c, fullResponse[c])
    /\ UNCHANGED <<offline, API_KEYS, currentKeyIndex, op, startIndex, triedKeys,
                   attempt, limitedKeys, raised, stream>>

\* The stream throws err while the loop waits for the next chunk.
StreamFail(c, err) ==
    /\ pc[c] = "stream"
    /\ CatchBlock(c, op[c], triedKeys[c], err)
    /\ limitedKeys' = [limitedKeys EXCEPT ![c] =
                          IF ~isAbortError(err) /\ is429Error(err)
                          THEN @ \cup {apiKey[c]} ELSE @]
    /\ UNCHANGED <<offline, API_KEYS, op, startIndex, attempt, stream>>

\* await ai.models.generateContent(...) resolves with response.text = text;
\* the operation body post-processes it and returns.
GenerateResolve(c, text) ==
    /\ pc[c] = "attempt"
    /\ op[c] \in GenerateOps
    /\ Settle(c, op[c], triedKeys[c],
              Returned(IF op[c] = "generateLegalFlowchart"
                       THEN FlowchartSplit(text) ELSE ParseSearch(text)))
    /\ response' = [response EXCEPT ![c] = <<text>>]
    /\ UNCHANGED <<offline, API_KEYS, op, startIndex, attempt, limitedKeys, raised,
                   aborted, pos, sink, fullResponse>>

InitStream == InitPool(StreamPool) /\ OfflineIdle /\ UiIdle

\* One call of an operation that takes an abortSignal, and its caller's signal.
NextStream ==
    \/ \E o \in CancellableOps : Call(1, o) /\ UNCHANGED ui
    \/ Abort(1) /\ UNCHANGED ui
    \/ \E resp \in Responses : StreamOpen(1, resp) /\ UNCHANGED ui
    \/ ReadChunk(1) /\ UNCHANGED ui
    \/ StreamEnd(1) /\ UNCHANGED ui
    \/ \E err \in ProviderErrors : StreamFail(1, err) /\ UNCHANGED ui
    \/ \E text \in GenerateTexts : GenerateResolve(1, text) /\ UNCHANGED ui
    \/ \E err \in ProviderErrors : AttemptFail(1, err) /\ UNCHANGED ui
    \/ Retry(1) /\ UNCHANGED ui

SpecStream == InitStream /\ [][NextStream]_vars

----------------------------------------------------------------------------
\* The parse step of analyzeJudgment on its own, over complete responses.

Invalid == [valid |-> FALSE, val |-> JsNull]

Valid(v) == [valid |-> TRUE, val |-> v]

\* JSON texts a response may carry, each with the value it denotes
\* (written out by hand), or Invalid when it is not JSON.
Bodies ==
    << [chars |-> <<"{","}">>, json |-> Valid(JsObject(<<>>))],
       [chars |-> <<"{","\"","a","\"",":","1","}">>,
        json |-> Valid(JsObject(<< <<<<"a">>, JsNumber(<<"1">>)>> >>))],
       [chars |-> <<"{","\"","a","\"",":"," ","[","\"","b","\"",","," ","{","}","]",",","\n"," ","\"","c","\"",":"," ","n","u","l","l","}">>,
        json |-> Valid(JsObject(<< <<<<"a">>, JsArray(<<JsString(<<"b">>), JsObject(<<>>)>>)>>,
                                   <<<<"c">>, JsNull>> >>))],
       [chars |-> <<"{","\"","a","\"",":","1">>, json |-> Invalid],
       [chars |-> <<"{","\"","a","\"",":","1","}","}">>, json |-> Invalid],
       [chars |-> <<"{","a",":","1","}">>, json |-> Invalid],
       [chars |-> <<"{","\"","a","\"",":","}">>, json |-> Invalid],
       [chars |-> <<"S","o","r","r","y">>, json |-> Invalid],
       [chars |-> <<>>, json |-> Invalid],
       [chars |-> <<"[","1","]">>, json |-> Valid(JsArray(<<JsNumber(<<"1">>)>>))] >>

\* white space a response may begin or end with
Paddings == { <<>>, <<" ">>, <<"\n">> }

\* what may stand before the JSON text: nothing, or an opening fence
Opens ==
    { <<>>, Fence, Fence \o <<"\n">>,
      Fence \o <<"j","s","o","n">>, Fence \o <<"j","s","o","n","\n">>,
      Fence \o <<"J","S","O","N","\n">> }

\* what may stand after the JSON text: nothing, or a closing fence
Closes == { <<>>, Fence, <<"\n">> \o Fence }

Inputs ==
    [lead : Paddings, open : Opens, body : 1..Len(Bodies), close : Closes,
     trail : Paddings]

\* the response text made of the parts of an input
Render(in) ==
    in.lead \o in.open \o Bodies[in.body].chars \o in.close \o in.trail

InitParse ==
    /\ InitPool(0)
    /\ UiIdle
    /\ input \in Inputs
    /\ output = Pending
    /\ dir = <<>> /\ files = <<>> /\ cursor = 0
    /\ cases = <<>> /\ seen = {} /\ index = <<>>

\* The try block "Parse the JSON" of analyzeJudgment runs on the response.
ParseStep ==
    /\ output = Pending
    /\ output' = Returned(ParseJudgment(Render(input)))
    /\ UNCHANGED <<service, ui, input, dir, files, cursor, cases, seen, index>>

NextParse == ParseStep

SpecParse == InitParse /\ [][NextParse]_vars

----------------------------------------------------------------------------
\* The batch indexer buildCaseIndex.cjs. A file name is the sequence of its
\* lexical pieces (digit runs, separators, words), each a sequence of
\* characters; the name itself is their concatenation.

\* Largest directory listing explored.
MaxFiles == 3

Letters ==
    { "a", "b", "c", "d", "e", "f", "g", "h", "i", "j", "k", "l", "m", "n", "o", "p", "q", "r", "s", "t", "u", "v", "w", "x", "y", "z",
      "A", "B", "C", "D", "E", "F", "G", "H", "I", "J", "K", "L", "M", "N", "O", "P", "Q", "R", "S", "T", "U", "V", "W", "X", "Y", "Z" }

\* \w
WordChars == Letters \cup Digits \cup { "_" }

\* \d+
IsDigits(tok) == tok # <<>> /\ \A i \in 1..Len(tok) : tok[i] \in Digits

\* -?\d+
IsSignedDigits(tok) ==
    IsDigits(tok) \/ (Len(tok) >= 2 /\ tok[1] = "-" /\ IsDigits(Tail(tok)))

\* \d{n}
IsDigitsOfLen(tok, n) == Len(tok) = n /\ IsDigits(tok)

\* \w+
IsWord(tok) == tok # <<>> /\ \A i \in 1..Len(tok) : tok[i] \in WordChars

DigitSeq == <<"0", "1", "2", "3", "4", "5", "6", "7", "8", "9">>

DigitValue(ch) == (CHOOSE k \in 1..10 : DigitSeq[k] = ch) - 1

RECURSIVE parseInt(_)

\* parseInt of a run of digits
parseInt(tok) ==
    IF tok = <<>> THEN 0
    ELSE parseInt(SubSeq(tok, 1, Len(tok) - 1)) * 10 + DigitValue(tok[Len(tok)])

Dash == <<"-">>
Underscore == <<"_">>
DoubleUnderscore == <<"_", "_">>
TokSupremeCourt == <<"_","_","_","s","u","p","r","e","m","e","c","o","u","r","t">>
TokVernacular == <<"_","v","e","r","n","a","c","u","l","a","r">>
TokJudis == <<"_","_","_","j","o","n","e","w","_","_","j","u","d","i","s","_","_">>
TokJudisId == <<"j","u","d","i","s","-">>
TokPdf == <<".","p","d","f">>
Judgement == <<"J","u","d","g","e","m","e","n","t">>
Order == <<"O","r","d","e","r">>
ENG == <<"E","N","G">>

\* a value that may be null: <<>> is null, <<v>> is v
Null == <<>>

MONTHS ==
    << <<<<"J","a","n">>, <<"0","1">>>>,
       <<<<"F","e","b">>, <<"0","2">>>>,
       <<<<"M","a","r">>, <<"0","3">>>>,
       <<<<"A","p","r">>, <<"0","4">>>>,
       <<<<"M","a","y">>, <<"0","5">>>>,
       <<<<"J","u","n">>, <<"0","6">>>>,
       <<<<"J","u","l">>, <<"0","7">>>>,
       <<<<"A","u","g">>, <<"0","8">>>>,
       <<<<"S","e","p">>, <<"0","9">>>>,
       <<<<"O","c","t">>, <<"1","0">>>>,
       <<<<"N","o","v">>, <<"1","1">>>>,
       <<<<"D","e","c">>, <<"1","2">>>> >>

\* "24-Oct-2024" -> "2024-10-24", from the three groups of the match
parseDateStr(dd, mon, yyyy) ==
    LET hits == { k \in 1..Len(MONTHS) : MONTHS[k][1] = mon }
        mm == IF hits = {} THEN <<"0", "0">> ELSE MONTHS[CHOOSE k \in hits : TRUE][2]
    IN  yyyy \o Dash \o mm \o Dash \o dd

\* f.endsWith('.pdf')
EndsWithPdf(name) == name # <<>> /\ name[Len(name)] = TokPdf

\* name.replace(/\.pdf$/i, '')
RemovePdf(name) ==
    LET tok == IF name = <<>> THEN <<>> ELSE name[Len(name)]
    IN  IF Len(tok) = 4 /\ tok[1] = "." /\ tok[2] \in {"p", "P"}
           /\ tok[3] \in {"d", "D"} /\ tok[4] \in {"f", "F"}
        THEN SubSeq(name, 1, Len(name) - 1)
        ELSE name

\* (Judgement|Order)_(\d{2}-\w{3}-\d{4})(?:_(\w+))?$ matched from piece t on,
\* with the language group when lang
TailAt(base, t, lang) ==
    /\ Len(base) = (IF lang THEN t + 8 ELSE t + 6)
    /\ base[t] \in { Judgement, Order }
    /\ base[t + 1] = Underscore
    /\ IsDigitsOfLen(base[t + 2], 2)
    /\ base[t + 3] = Dash
    /\ IsWord(base[t + 4]) /\ Len(base[t + 4]) = 3
    /\ base[t + 5] = Dash
    /\ IsDigitsOfLen(base[t + 6], 4)
    /\ lang => base[t + 7] = Underscore /\ IsWord(base[t + 8])

\* Pattern A, the "supremecourt" long form: the match, or ok = FALSE
MatchSupremeCourt(base) ==
    LET k == IF Len(base) >= 5 /\ base[5] = TokVernacular THEN 1 ELSE 0
        headOk == /\ Len(base) >= 10 + k
                  /\ IsDigits(base[1]) /\ base[2] = Dash
                  /\ IsDigitsOfLen(base[3], 4)
                  /\ base[4] = TokSupremeCourt
                  /\ base[5 + k] = DoubleUnderscore
                  /\ IsDigitsOfLen(base[6 + k], 4)
                  /\ base[7 + k] = DoubleUnderscore
                  /\ IsDigits(base[8 + k])
                  /\ base[9 + k] = DoubleUnderscore
        ts == { t \in (10 + k)..Len(base) :
                    TailAt(base, t, TRUE) \/ TailAt(base, t, FALSE) }
        t == CHOOSE x \in ts : \A y \in ts : x <= y
    IN  IF headOk /\ ts # {}
        THEN [ok |-> TRUE, caseNo |-> base[1], year |-> base[3], type |-> base[t],
              date |-> parseDateStr(base[t + 2], base[t + 4], base[t + 6]),
              lang |-> IF TailAt(base, t, TRUE) THEN base[t + 8] ELSE Null]
        ELSE [ok |-> FALSE]

\* Pattern B, the old "jonew__judis" form: the match, or ok = FALSE
MatchJudis(base) ==
    IF Len(base) = 3 /\ IsSignedDigits(base[1]) /\ base[2] = TokJudis
       /\ IsDigits(base[3])
    THEN [ok |-> TRUE, caseNo |-> base[1], year |-> Null, judis |-> base[3]]
    ELSE IF Len(base) = 5 /\ IsSignedDigits(base[1]) /\ base[2] = Dash
            /\ IsDigitsOfLen(base[3], 4) /\ base[4] = TokJudis /\ IsDigits(base[5])
    THEN [ok |-> TRUE, caseNo |-> base[1], year |-> <<parseInt(base[3])>>,
          judis |-> base[5]]
    ELSE [ok |-> FALSE]

\* the record parseFilename derives from a name (isVernacular is set by the
\* main loop and FALSE stands for its absence)
parseFilename(name) ==
    LET base == RemovePdf(name)
        sc == MatchSupremeCourt(base)
        j == MatchJudis(base)
    IN  IF sc.ok
        THEN [id |-> sc.caseNo \o Dash \o sc.year, caseNo |-> sc.caseNo,
              year |-> <<parseInt(sc.year)>>, court |-> "Supreme Court of India",
              type |-> sc.type, date |-> sc.date, language |-> sc.lang,
              source |-> "supremecourt", filename |-> name, isVernacular |-> FALSE]
        ELSE IF j.ok
        THEN [id |-> TokJudisId \o j.judis, caseNo |-> j.caseNo, year |-> j.year,
              court |-> "Supreme Court of India", type |-> Judgement,
              date |-> Null, language |-> Null, source |-> "judis",
              filename |-> name, isVernacular |-> FALSE]
        ELSE [id |-> Concat(base), caseNo |-> Concat(base), year |-> Null,
              court |-> "Supreme Court of India", type |-> Judgement,
              date |-> Null, language |-> Null, source |-> "unknown",
              filename |-> name, isVernacular |-> FALSE]

\* if (entry.language && entry.language !== 'ENG') entry.isVernacular = true
MarkVernacular(entry) ==
    [entry EXCEPT !.isVernacular = entry.language # Null /\ entry.language # ENG]

\* Variant: every record is pushed, seen or not.
KeepsAlways(ids, id) == TRUE

\* if (!seen.has(entry.id))
Keeps(ids, id) == id \notin ids

\* year || 0
YearOrZero(entry) ==
    IF entry.year = Null \/ entry.year = <<0>> THEN 0 ELSE entry.year[1]

\* The characters in collation order (punctuation, digits, letters); the two
\* cases of a letter differ only when everything else is equal.
Collation ==
    <<"_", "-", ".">> \o DigitSeq \o
    << "a", "b", "c", "d", "e", "f", "g", "h", "i", "j", "k", "l", "m", "n", "o", "p", "q", "r", "s", "t", "u", "v", "w", "x", "y", "z" >>

LowerCase ==
    [ch \in Letters |->
        LET ups == << "A", "B", "C", "D", "E", "F", "G", "H", "I", "J", "K", "L", "M", "N", "O", "P", "Q", "R", "S", "T", "U", "V", "W", "X", "Y", "Z" >>
            hits == { k \in 1..Len(ups) : ups[k] = ch }
        IN  IF hits = {} THEN ch ELSE Collation[13 + CHOOSE k \in hits : TRUE]]

Fold(ch) == IF ch \in Letters THEN LowerCase[ch] ELSE ch

\* the characters file names are made of
NameChars == Letters \cup Digits \cup { "_", "-", "." }

CollationRank ==
    [ch \in NameChars |-> CHOOSE k \in 1..Len(Collation) : Collation[k] = Fold(ch)]

RECURSIVE CompareBy(_, _, _)

\* the sign of the first difference of x and y under the character key
CompareBy(key, x, y) ==
    IF x = <<>> /\ y = <<>> THEN 0
    ELSE IF x = <<>> THEN -1
    ELSE IF y = <<>> THEN 1
    ELSE IF key[Head(x)] < key[Head(y)] THEN -1
    ELSE IF key[Head(x)] > key[Head(y)] THEN 1
    ELSE CompareBy(key, Tail(x), Tail(y))

\* lower case before upper case
CaseRank == [ch \in NameChars |-> IF ch \in Letters /\ Fold(ch) # ch THEN 1 ELSE 0]

\* x.localeCompare(y)
localeCompare(x, y) ==
    LET primary == CompareBy(CollationRank, x, y)
    IN  IF primary # 0 THEN primary ELSE CompareBy(CaseRank, x, y)

\* the comparator handed to cases.sort
CompareCases(a, b) ==
    IF b.year # a.year THEN YearOrZero(b) - YearOrZero(a)
    ELSE localeCompare(a.caseNo, b.caseNo)

Perms(n) == { p \in [1..n -> 1..n] : \A i, j \in 1..n : i # j => p[i] # p[j] }

\* p lists s in comparator order, equal elements in their old order
StableSorted(s, p) ==
    \A i, j \in 1..Len(s) :
        i < j => \/ CompareCases(s[p[i]], s[p[j]]) < 0
                 \/ CompareCases(s[p[i]], s[p[j]]) = 0 /\ p[i] < p[j]

\* What Array.prototype.sort may leave: the stable order when the comparator
\* is consistent on s, any order when it is not.
SortOutcomes(s) ==
    LET good == { p \in Perms(Len(s)) : StableSorted(s, p) }
        ps == IF good # {} THEN good ELSE Perms(Len(s))
    IN  { [i \in 1..Len(s) |-> s[p[i]]] : p \in ps }

RECURSIVE Unique(_)

\* [...new Set(s)]: the distinct elements in order of first appearance
Unique(s) ==
    IF s = <<>> THEN <<>>
    ELSE LET front == Unique(SubSeq(s, 1, Len(s) - 1))
             last == s[Len(s)]
         IN  IF \E i \in 1..Len(front) : front[i] = last THEN front
             ELSE Append(front, last)

RECURSIVE Descending(_)

\* the numbers of a set, largest first: .sort((a, b) => b - a)
Descending(S) ==
    IF S = {} THEN <<>>
    ELSE LET m == CHOOSE x \in S : \A y \in S : y <= x
         IN  <<m>> \o Descending(S \ {m})

\* cases.filter(c => c.year).map(c => c.year), made unique and sorted
YearsOf(s) ==
    Descending({ s[i].year[1] : i \in { k \in 1..Len(s) : YearOrZero(s[k]) # 0 } })

TypesOf(s) == Unique([i \in 1..Len(s) |-> s[i].type])

\* Names a directory may hold.
Names ==
    { << <<"1","0","0","0","1">>,
         <<"-">>,
         <<"2","0","2","3">>,
         <<"_","_","_","s","u","p","r","e","m","e","c","o","u","r","t">>,
         <<"_","_">>,
         <<"2","0","2","3">>,
         <<"_","_">>,
         <<"1","0","0","0","1">>,
         <<"_","_">>,
         <<"1","0","0","0","1","_","2","0","2","3","_","1","3","_">>,
         <<"J","u","d","g","e","m","e","n","t">>,
         <<"_">>,
         <<"2","7">>,
         <<"-">>,
         <<"M","a","r">>,
         <<"-">>,
         <<"2","0","2","3">>,
         <<".","p","d","f">> >>,
      << <<"1","0","0","0","1">>,
         <<"-">>,
         <<"2","0","2","3">>,
         <<"_","_","_","s","u","p","r","e","m","e","c","o","u","r","t">>,
         <<"_","v","e","r","n","a","c","u","l","a","r">>,
         <<"_","_">>,
         <<"2","0","2","3">>,
         <<"_","_">>,
         <<"1","0","0","0","1">>,
         <<"_","_">>,
         <<"1","0","0","0","1","_","2","0","2","3","_","1","3","_">>,
         <<"J","u","d","g","e","m","e","n","t">>,
         <<"_">>,
         <<"2","7">>,
         <<"-">>,
         <<"M","a","r">>,
         <<"-">>,
         <<"2","0","2","3">>,
         <<"_">>,
         <<"H","I","N">>,
         <<".","p","d","f">> >>,
      << <<"2">>,
         <<"-">>,
         <<"2","0","2","4">>,
         <<"_","_","_","s","u","p","r","e","m","e","c","o","u","r","t">>,
         <<"_","_">>,
         <<"2","0","2","4">>,
         <<"_","_">>,
         <<"2">>,
         <<"_","_">>,
         <<"2","_","2","0","2","4","_","1","_">>,
         <<"O","r","d","e","r">>,
         <<"_">>,
         <<"2","4">>,
         <<"-">>,
         <<"O","c","t">>,
         <<"-">>,
         <<"2","0","2","4">>,
         <<".","p","d","f">> >>,
      << <<"9","2","4">>,
         <<"-">>,
         <<"1","9","9","6">>,
         <<"_","_","_","j","o","n","e","w","_","_","j","u","d","i","s","_","_">>,
         <<"1","3","0","1","3">>,
         <<".","p","d","f">> >>,
      << <<"-","0">>,
         <<"_","_","_","j","o","n","e","w","_","_","j","u","d","i","s","_","_">>,
         <<"1","0","1","6","6">>,
         <<".","p","d","f">> >>,
      << <<"j","u","d","i","s","-">>,
         <<"1","0","1","6","6">>,
         <<".","p","d","f">> >>,
      << <<"1","0","0","0","1">>,
         <<"-">>,
         <<"2","0","2","3">>,
         <<".","p","d","f">> >>,
      << <<"1","0","0","0","1">>,
         <<"-">>,
         <<"2","0","2","3">>,
         <<".","P","D","F">> >>,
      << <<"n","o","t","e","s">>,
         <<".","t","x","t">> >>,
      << <<"5">>,
         <<"-">>,
         <<"0","0","0","0">>,
         <<"_","_","_","s","u","p","r","e","m","e","c","o","u","r","t">>,
         <<"_","_">>,
         <<"0","0","0","0">>,
         <<"_","_">>,
         <<"5">>,
         <<"_","_">>,
         <<"5","_","0","0","0","0","_","1","_">>,
         <<"J","u","d","g","e","m","e","n","t">>,
         <<"_">>,
         <<"0","1">>,
         <<"-">>,
         <<"J","a","n">>,
         <<"-">>,
         <<"2","0","0","0">>,
         <<".","p","d","f">> >>,
      << <<"2">>,
         <<"-">>,
         <<"2","0","2","3">>,
         <<"_","_","_","s","u","p","r","e","m","e","c","o","u","r","t">>,
         <<"_","_">>,
         <<"2","0","2","3">>,
         <<"_","_">>,
         <<"2">>,
         <<"_","_">>,
         <<"2","_","2","0","2","3","_","7","_">>,
         <<"O","r","d","e","r">>,
         <<"_">>,
         <<"0","2">>,
         <<"-">>,
         <<"F","e","b">>,
         <<"-">>,
         <<"2","0","2","3">>,
         <<".","p","d","f">> >> }

\* readdirSync: distinct names in directory order
Listings ==
    UNION { { l \in [1..n -> Names] : \A i, j \in 1..n : i # j => l[i] # l[j] } :
            n \in 0..MaxFiles }

\* fs.readdirSync(PDF_DIR).filter(f => f.endsWith('.pdf'))
PdfFiles(listing) == SelectSeq(listing, EndsWithPdf)

\* The script has listed the directory and is about to enter its loop.
InitIndex ==
    /\ InitPool(0)
    /\ UiIdle
    /\ input = <<>> /\ output = Pending
    /\ dir \in Listings
    /\ files = PdfFiles(dir)
    /\ cursor = 0
    /\ cases = <<>>
    /\ seen = {}
    /\ index = <<>>

\* One pass through the body of `for (const f of files)`.
Visit ==
    /\ cursor < Len(files)
    /\ LET entry == MarkVernacular(parseFilename(files[cursor + 1]))
       IN  IF Keeps(seen, entry.id)
           THEN /\ seen' = seen \cup {entry.id}
                /\ cases' = Append(cases, entry)
           ELSE UNCHANGED <<seen, cases>>
    /\ cursor' = cursor + 1
    /\ UNCHANGED <<service, ui, input, output, dir, files, index>>

\* After the loop: sort in place, compute the statistics, write the index
\* (generatedAt, the time of the run, is left out).
Emit ==
    /\ cursor = Len(files)
    /\ index = <<>>
    /\ \E sorted \in SortOutcomes(cases) :
           /\ cases' = sorted
           /\ index' = << [totalCases |-> Len(sorted), years |-> YearsOf(sorted),
                           types |-> TypesOf(sorted), cases |-> sorted] >>
    /\ UNCHANGED <<service, ui, input, output, dir, files, cursor, seen>>

NextIndex == Visit \/ Emit

SpecIndex == InitIndex /\ [][NextIndex]_vars

----------------------------------------------------------------------------
\* The rotation layer under errors of every shape is429Error tells apart.

\* message values an error may carry
ErrorMessages ==
    { <<>>,
      <<"f","e","t","c","h"," ","f","a","i","l","e","d">>,
      <<"4","2","9">>,
      <<"g","o","t"," ","4","2","9"," ","T","o","o"," ","M","a","n","y">>,
      <<"4"," ","2","9">>,
      <<"R","E","S","O","U","R","C","E","_","E","X","H","A","U","S","T","E","D">>,
      <<"q","u","o","t","a",":"," ","R","E","S","O","U","R","C","E","_","E","X","H","A","U","S","T","E","D",".">>,
      <<"r","e","s","o","u","r","c","e","_","e","x","h","a","u","s","t","e","d">> }

\* the fields an error may have next to its name, each with its values
ErrorFields ==
    [ message |-> ErrorMessages, status |-> {429, 500}, code |-> {429, 8},
      httpStatusCode |-> {429, 503} ]

\* the error e with field f set to v
WithField(e, f, v) == [g \in DOMAIN e \cup {f} |-> IF g = f THEN v ELSE e[g]]

\* the errors of S, and each of them with field f set to each of its values
Optional(S, f) == S \cup { WithField(e, f, v) : e \in S, v \in ErrorFields[f] }

\* Errors that are not cancellations: every choice of fields present, every
\* choice of their values.
ErrorShapes ==
    Optional(Optional(Optional(Optional({ [name |-> "Error"] },
        "message"), "status"), "code"), "httpStatusCode")

InitErrors == InitPool(MaxKeys) /\ OfflineIdle /\ UiIdle

\* One call of withKeyRotation whose attempts may fail in every such way.
NextErrors ==
    \/ \E o \in GenericOps : Call(1, o) /\ UNCHANGED ui
    \/ AttemptSucceed(1) /\ UNCHANGED ui
    \/ \E err \in ErrorShapes : AttemptFail(1, err) /\ UNCHANGED ui
    \/ Retry(1) /\ UNCHANGED ui

SpecErrors == InitErrors /\ [][NextErrors]_vars

----------------------------------------------------------------------------
\* Prompt construction: the language directive. A prompt is a sequence of
\* characters in which the fixed template text of an operation is one piece.

LANGUAGE_NAMES ==
    << <<<<"e","n">>, <<"E","n","g","l","i","s","h">>>>,
       <<<<"h","i">>, <<"H","i","n","d","i">>>>,
       <<<<"b","n">>, <<"B","e","n","g","a","l","i">>>>,
       <<<<"t","a">>, <<"T","a","m","i","l">>>>,
       <<<<"t","e">>, <<"T","e","l","u","g","u">>>>,
       <<<<"m","r">>, <<"M","a","r","a","t","h","i">>>>,
       <<<<"g","u">>, <<"G","u","j","a","r","a","t","i">>>>,
       <<<<"k","n">>, <<"K","a","n","n","a","d","a">>>>,
       <<<<"m","l">>, <<"M","a","l","a","y","a","l","a","m">>>>,
       <<<<"p","a">>, <<"P","u","n","j","a","b","i">>>>,
       <<<<"u","r">>, <<"U","r","d","u">>>> >>

\* the operations with a languageCode parameter
LanguageOps == StreamingOps \cup { "generateLegalFlowchart" }

\* language codes a caller may pass: those the pages offer, none, and codes
\* the table does not hold
LanguageCodes ==
    { LANGUAGE_NAMES[k][1] : k \in 1..Len(LANGUAGE_NAMES) } \cup
    { <<>>, <<"f","r">>, <<"E","N">>, <<"e","n","-","I","N">> }

\* ComplexityLevel
ComplexityLevels == { "Standard", "ELI5 (Simple)", "Professional (Legal)" }

\* texts of the caller
CallerTexts == { <<"b","a","i","l","?">>, <<"[","R","E","S","P","O","N","D"," ","I","N"," ","x","]">> }

UpperCase ==
    [ch \in Letters |->
        LET lows == << "a", "b", "c", "d", "e", "f", "g", "h", "i", "j", "k", "l", "m", "n", "o", "p", "q", "r", "s", "t", "u", "v", "w", "x", "y", "z" >>
            ups == << "A", "B", "C", "D", "E", "F", "G", "H", "I", "J", "K", "L", "M", "N", "O", "P", "Q", "R", "S", "T", "U", "V", "W", "X", "Y", "Z" >>
            hits == { k \in 1..Len(lows) : lows[k] = ch }
        IN  IF hits = {} THEN ch ELSE ups[CHOOSE k \in hits : TRUE]]

\* s.toUpperCase()
toUpperCase(s) == [i \in 1..Len(s) |-> IF s[i] \in Letters THEN UpperCase[s[i]] ELSE s[i]]

\* LANGUAGE_NAMES[languageCode] || languageCode
langName(languageCode) ==
    LET hits == { k \in 1..Len(LANGUAGE_NAMES) : LANGUAGE_NAMES[k][1] = languageCode }
    IN  IF hits = {} THEN languageCode ELSE LANGUAGE_NAMES[CHOOSE k \in hits : TRUE][2]

\* Variant: only an empty code suppresses the directive.
NeedsDirectiveNonEmpty(languageCode) == languageCode # <<>>

\* if (languageCode && languageCode !== 'en')
NeedsDirective(languageCode) == languageCode # <<>> /\ languageCode # <<"e", "n">>

\* the text between "LANGUAGE" and "]" in the directive of operation o
DirectiveTail(o, name) ==
    IF o = "generateLegalFlowchart"
    THEN <<" ","b","u","t"," ","k","e","e","p"," ","M","e","r","m","a","i","d"," ","n","o","d","e"," ","I","D","s"," ","i","n"," ","E","n","g","l","i","s","h"," ","l","e","t","t","e","r","s"," ","A","-","Z","."," ","N","o","d","e"," ","t","e","x","t"," ","c","a","n"," ","b","e"," ","i","n"," ">>
         \o name \o <<".">>
    ELSE IF o = "generateCaseStudy"
    THEN <<" ","b","u","t"," ","k","e","e","p"," ","c","a","s","e"," ","c","i","t","a","t","i","o","n","s",","," ","s","e","c","t","i","o","n"," ","n","u","m","b","e","r","s",","," ","a","n","d"," ","M","e","r","m","a","i","d"," ","c","o","d","e"," ","i","n"," ","E","n","g","l","i","s","h">>
    ELSE <<>>

\* `[RESPOND IN ${langName.toUpperCase()} LANGUAGE...] `
Directive(o, languageCode) ==
    <<"[","R","E","S","P","O","N","D"," ","I","N"," ">> \o toUpperCase(langName(languageCode))
    \o <<" ","L","A","N","G","U","A","G","E">> \o DirectiveTail(o, langName(languageCode))
    \o <<"]", " ">>

\* the prompt before the language instruction: the template of the operation
\* (for streamChatResponse the prefix its complexity selects) and the text
BasePrompt(o, complexity, text) ==
    IF o = "streamChatResponse"
    THEN IF complexity = "ELI5 (Simple)"
         THEN <<"(Explain this to a 5-year-old using simple analogies): ">> \o text
         ELSE IF complexity = "Professional (Legal)"
         THEN <<"(Provide a detailed legal analysis with case law references if possible): ">>
              \o text
         ELSE text
    ELSE <<o>> \o text

\* the prompt the operation sends
BuildPrompt(o, complexity, languageCode, text) ==
    IF NeedsDirective(languageCode)
    THEN Directive(o, languageCode) \o BasePrompt(o, complexity, text)
    ELSE BasePrompt(o, complexity, text)

\* the arguments of one call: complexity is streamChatResponse's only
PromptInputs ==
    { in \in [op : LanguageOps, complexity : ComplexityLevels,
              languageCode : LanguageCodes, text : CallerTexts] :
          in.op # "streamChatResponse" => in.complexity = "Standard" }

InitPrompt ==
    /\ InitPool(0)
    /\ UiIdle
    /\ input \in PromptInputs
    /\ output = Pending
    /\ dir = <<>> /\ files = <<>> /\ cursor = 0
    /\ cases = <<>> /\ seen = {} /\ index = <<>>

\* The operation builds its prompt from its arguments.
PromptStep ==
    /\ output = Pending
    /\ output' = Returned(BuildPrompt(input.op, input.complexity,
                                      input.languageCode, input.text))
    /\ UNCHANGED <<service, ui, input, dir, files, cursor, cases, seen, index>>

NextPrompt == PromptStep

SpecPrompt == InitPrompt /\ [][NextPrompt]_vars

----------------------------------------------------------------------------
\* Route gating. The identity provider's state reaches ProtectedRoute through
\* useAuth(); the component is a function of that state and the location.

\* the paths of the routes nested under the protected route
ProtectedPaths ==
    { "/", "/chat", "/analyzer", "/snap-solve", "/calculators", "/find-help",
      "/scam-check", "/legal-flow", "/judgments", "/judgments/:caseId",
      "/case-studies", "/architecture" }

\* useAuth().user: no user, or one of two signed-in users
Users == { Null, <<"uid1">>, <<"uid2">> }

\* what useAuth() and useLocation() may hand to the component
RouteProps == [user : Users, loading : BOOLEAN, location : ProtectedPaths]

LoadingPlaceholder == [element |-> "Loading..."]

Navigate(to, from) == [element |-> "Navigate", to |-> to, state |-> [from |-> from],
                       replace |-> TRUE]

Children == [element |-> "children"]

\* Variant: the loading state of the provider is not looked at.
ProtectedRouteIgnoringLoading(user, loading, location) ==
    IF user = Null THEN Navigate("/login", location) ELSE Children

\* ProtectedRoute({ children })
ProtectedRoute(user, loading, location) ==
    IF loading THEN LoadingPlaceholder
    ELSE IF user = Null THEN Navigate("/login", location)
    ELSE Children

\* the element the component returns for props p
Rendered(p) == Returned(ProtectedRoute(p.user, p.loading, p.location))

InitRoute ==
    /\ InitPool(0)
    /\ UiIdle
    /\ input \in RouteProps
    /\ output = Pending
    /\ dir = <<>> /\ files = <<>> /\ cursor = 0
    /\ cases = <<>> /\ seen = {} /\ index = <<>>

\* The route is mounted: the component renders for the first time.
Mount ==
    /\ output = Pending
    /\ output' = Rendered(input)
    /\ UNCHANGED <<service, ui, input, dir, files, cursor, cases, seen, index>>

\* The identity provider publishes a new state; the component renders again.
AuthStateChanged(user, loading) ==
    /\ output # Pending
    /\ <<user, loading>> # <<input.user, input.loading>>
    /\ input' = [input EXCEPT !.user = user, !.loading = loading]
    /\ output' = Rendered(input')
    /\ UNCHANGED <<service, ui, dir, files, cursor, cases, seen, index>>

\* The location changes under a mounted route; the component renders again.
LocationChanged(location) ==
    /\ output # Pending
    /\ location # input.location
    /\ input' = [input EXCEPT !.location = location]
    /\ output' = Rendered(input')
    /\ UNCHANGED <<service, ui, dir, files, cursor, cases, seen, index>>

NextRoute ==
    \/ Mount
    \/ \E user \in Users, loading \in BOOLEAN : AuthStateChanged(user, loading)
    \/ \E location \in ProtectedPaths : LocationChanged(location)

SpecRoute == InitRoute /\ [][NextRoute]_vars

----------------------------------------------------------------------------
\* The pages ScamCheck, CaseStudies and SnapSolve: each has one request
\* handler, a busy flag and a ref to the abort controller of the request the
\* handler started last. The controller of call c is written <<c>>; its signal
\* is aborted[c]; the chunks given to setResult are the sink of the call.

Pages == { "ScamCheck", "CaseStudies", "SnapSolve" }

\* the operation the handler of page p awaits
PageOp(p) ==
    IF p = "ScamCheck" THEN "analyzeScam"
    ELSE IF p = "CaseStudies" THEN "generateCaseStudy"
    ELSE "snapAndSolve"

\* what the provider may do to a request of a page
PageResponses == { <<Hel, lo>> }

PageErrors == { err \in ProviderErrors : err.name # "AbortError" }

\* those that are not a rate limit: the call fails without a retry
PlainErrors == { err \in PageErrors : ~is429Error(err) }

\* the handler that started call c is suspended at its await
Awaited(c) == pc[c] \in {"attempt", "stream", "delay"}

\* finally { setIsLoading(false); abortControllerRef.current = null; }: the
\* handler resumes as soon as the call it awaits has settled
Finally(c) ==
    IF pc'[c] = "done"
    THEN isLoading' = FALSE /\ abortControllerRef' = Null
    ELSE UNCHANGED <<isLoading, abortControllerRef>>

InitPage ==
    /\ InitPool(StreamPool)
    /\ OfflineIdle
    /\ page \in Pages
    /\ isLoading = FALSE
    /\ abortControllerRef = Null
    /\ ChatIdle
    /\ AnalyzerIdle

\* handleAnalyze / handleSearch with something to send, up to its await; the
\* request takes the first free call
handleAnalyze(c) ==
    /\ page \in Pages
    /\ ~isLoading
    /\ \A d \in Calls : d < c => pc[d] # "idle"
    /\ Call(c, PageOp(page))
    /\ IF pc'[c] = "done"
       THEN isLoading' = FALSE /\ abortControllerRef' = Null
       ELSE isLoading' = TRUE /\ abortControllerRef' = <<c>>
    /\ UNCHANGED <<page, chat, analyzer>>

\* handleStop, the button shown while isLoading
handleStop ==
    /\ page \in Pages
    /\ isLoading
    /\ IF abortControllerRef # Null /\ Awaited(abortControllerRef[1])
          /\ ~aborted[abortControllerRef[1]]
       THEN Abort(abortControllerRef[1])
       ELSE UNCHANGED <<service, offline>>
    /\ isLoading' = FALSE
    /\ UNCHANGED <<page, abortControllerRef, chat, analyzer>>

\* The handler has left; the call's locals are gone.
Forget(c) == page \in Pages /\ Return(c) /\ UNCHANGED ui

NextPage ==
    \/ \E c \in Calls : handleAnalyze(c)
    \/ handleStop
    \/ \E c \in Calls, resp \in PageResponses :
           StreamOpen(c, resp) /\ Finally(c) /\ UNCHANGED <<page, chat, analyzer>>
    \/ \E c \in Calls : ReadChunk(c) /\ Finally(c) /\ UNCHANGED <<page, chat, analyzer>>
    \/ \E c \in Calls : StreamEnd(c) /\ Finally(c) /\ UNCHANGED <<page, chat, analyzer>>
    \/ \E c \in Calls, err \in PageErrors :
           StreamFail(c, err) /\ Finally(c) /\ UNCHANGED <<page, chat, analyzer>>
    \/ \E c \in Calls, err \in PageErrors :
           AttemptFail(c, err) /\ Finally(c) /\ UNCHANGED <<page, chat, analyzer>>
    \/ \E c \in Calls : Retry(c) /\ Finally(c) /\ UNCHANGED <<page, chat, analyzer>>
    \/ \E c \in Calls : Forget(c)

SpecPage == InitPage /\ [][NextPage]_vars

----------------------------------------------------------------------------
\* ChatInterface: handleSend and handleStop, and the speech recognition that
\* sends by itself after a silence. A text is a sequence of characters or of
\* words; the bot message of call c carries the id <<"bot", c>>.

\* Longest dictation explored, in words.
MaxWords == 1

WELCOME_MSG == [id |-> <<"welcome", 0>>, role |-> "model", text |-> <<>>]

UserMsg(c, text) == [id |-> <<"user", c>>, role |-> "user", text |-> text]

BotMsg(c) == [id |-> <<"bot", c>>, role |-> "model", text |-> <<>>, isLoading |-> TRUE]

ErrorText == <<"**Error:** Unable to connect to legal database. ...">>

\* prev.map(m => m.id === id ? { ...m, ...patch } : m)
Spread(msgs, id, patch) ==
    [i \in DOMAIN msgs |-> IF msgs[i].id = id THEN patch @@ msgs[i] ELSE msgs[i]]

\* the onChunk callback handleSend passes for call c
onChunk(msgs, c, chunk, sig) ==
    IF sig THEN msgs
    ELSE [i \in DOMAIN msgs |->
             IF msgs[i].id = <<"bot", c>>
             THEN [text |-> msgs[i].text \o chunk, isLoading |-> FALSE] @@ msgs[i]
             ELSE msgs[i]]

\* catch (error) of handleSend
Caught(msgs, c, err, sig) ==
    IF err.name = "AbortError" \/ sig
    THEN Spread(msgs, <<"bot", c>>, [isLoading |-> FALSE])
    ELSE Spread(msgs, <<"bot", c>>,
                [text |-> ErrorText, isError |-> TRUE, isLoading |-> FALSE])

\* handleSend resumes after its await as soon as call c has settled: the catch
\* block when it rejected, then the finally block
Resume(c, msgs) ==
    IF pc'[c] = "done"
    THEN /\ messages' = IF result'[c].kind = "throw"
                        THEN Caught(msgs, c, result'[c].err, aborted'[c])
                        ELSE msgs
         /\ isLoading' = FALSE
         /\ abortControllerRef' = Null
    ELSE /\ messages' = msgs
         /\ UNCHANGED <<isLoading, abortControllerRef>>

\* useCallback(..., [isListening, language, input]): toggleListening, and the
\* handleSend it closes over, are those of the last render that changed a
\* dependency
Rerender ==
    toggleClosure' = IF isListening' # isListening \/ inputText' # inputText
                     THEN isLoading' ELSE toggleClosure

\* the call the next request takes, 0 when none is left
FreeCall ==
    IF \E c \in Calls : pc[c] = "idle"
    THEN CHOOSE c \in Calls : pc[c] = "idle" /\ \A d \in Calls : d < c => pc[d] # "idle"
    ELSE 0

\* the body of handleSend(text) past its guard, up to the await
handleSend(text) ==
    /\ FreeCall # 0
    /\ Call(FreeCall, "streamChatResponse")
    /\ inputText' = <<>>
    /\ LET c == FreeCall
           msgs == messages \o <<UserMsg(c, text), BotMsg(c)>>
       IN  IF pc'[c] = "done"
           THEN Resume(c, msgs)
           ELSE /\ messages' = msgs
                /\ isLoading' = TRUE
                /\ abortControllerRef' = <<c>>

InitChat ==
    /\ InitPool(StreamPool)
    /\ OfflineIdle
    /\ page = "ChatInterface"
    /\ isLoading = FALSE
    /\ abortControllerRef = Null
    /\ messages = <<WELCOME_MSG>>
    /\ inputText = <<>>
    /\ isListening = FALSE /\ silenceTimer = Null /\ accumulatedText = <<>>
    /\ timeouts = {} /\ toggleClosure = FALSE
    /\ AnalyzerIdle

\* onChange of the textarea: the user types a question.
SetInput ==
    /\ page = "ChatInterface"
    /\ inputText = <<>>
    /\ inputText' = <<"q">>
    /\ UNCHANGED <<service, offline, page, isLoading, abortControllerRef, messages,
                   isListening, silenceTimer, accumulatedText, timeouts, analyzer>>
    /\ Rerender

\* The send button or the Enter key, with handleSend of the current render
\* (a handleSend that fails its guard returns at once).
SendPressed ==
    /\ page = "ChatInterface"
    /\ inputText # <<>> /\ ~isLoading
    /\ handleSend(inputText)
    /\ UNCHANGED <<page, isListening, silenceTimer, accumulatedText, timeouts, analyzer>>
    /\ Rerender

\* handleStop of the chat, the button shown while isLoading
ChatStop ==
    /\ page = "ChatInterface"
    /\ isLoading
    /\ abortControllerRef # Null
    /\ Abort(abortControllerRef[1])
    /\ UNCHANGED ui

\* toggleListening, the microphone button
toggleListening ==
    /\ page = "ChatInterface"
    /\ IF isListening
       THEN /\ isListening' = FALSE
            /\ silenceTimer' = Null
            /\ UNCHANGED accumulatedText
       ELSE /\ isListening' = TRUE
            /\ silenceTimer' = <<toggleClosure>>
            /\ accumulatedText' = inputText
    /\ UNCHANGED <<service, offline, page, isLoading, abortControllerRef, messages,
                   inputText, timeouts, analyzer>>
    /\ Rerender

\* recognition.onresult with a final transcript; the silence timer is armed
\* again by the same closure
onresult ==
    /\ page = "ChatInterface"
    /\ isListening
    /\ Len(accumulatedText) < MaxWords
    /\ accumulatedText' = accumulatedText \o <<"q">>
    /\ inputText' = accumulatedText'
    /\ UNCHANGED <<service, offline, page, isLoading, abortControllerRef, messages,
                   isListening, silenceTimer, timeouts, analyzer>>
    /\ Rerender

\* Five seconds of silence: the timer callback of resetSilenceTimer.
SilenceTimeout ==
    /\ page = "ChatInterface"
    /\ silenceTimer # Null
    /\ isListening' = FALSE
    /\ silenceTimer' = Null
    /\ IF accumulatedText # <<>>
       THEN /\ inputText' = accumulatedText
            /\ timeouts' = timeouts \cup
                   { [text |-> accumulatedText, isLoading |-> silenceTimer[1]] }
       ELSE UNCHANGED <<inputText, timeouts>>
    /\ UNCHANGED <<service, offline, page, isLoading, abortControllerRef, messages,
                   accumulatedText, analyzer>>
    /\ Rerender

\* setTimeout(() => handleSend(text), 100) fires: handleSend of the render the
\* closure was made in, whose isLoading the guard reads.
SendTimeout(t) ==
    /\ page = "ChatInterface"
    /\ t \in timeouts
    /\ timeouts' = timeouts \ {t}
    /\ IF t.text = <<>> \/ t.isLoading
       THEN UNCHANGED <<service, offline, isLoading, abortControllerRef, messages,
                        inputText>>
       ELSE handleSend(t.text)
    /\ UNCHANGED <<page, isListening, silenceTimer, accumulatedText, analyzer>>
    /\ Rerender

\* what a step of call c leaves alone in the component
ChatFrame ==
    UNCHANGED <<page, inputText, isListening, silenceTimer, accumulatedText, timeouts,
                toggleClosure, analyzer>>

\* The stream of call c yields a chunk; streamChatResponse calls onChunk.
ChatChunk(c) ==
    /\ ReadChunk(c)
    /\ Resume(c, IF sink'[c] # sink[c]
                 THEN onChunk(messages, c, response[c][pos[c] + 1], aborted[c])
                 ELSE messages)
    /\ ChatFrame

NextChat ==
    \/ SetInput
    \/ SendPressed
    \/ ChatStop
    \/ toggleListening
    \/ onresult
    \/ SilenceTimeout
    \/ \E t \in timeouts : SendTimeout(t)
    \/ \E c \in Calls, resp \in PageResponses :
           page = "ChatInterface" /\ StreamOpen(c, resp) /\ Resume(c, messages) /\ ChatFrame
    \/ \E c \in Calls : page = "ChatInterface" /\ ChatChunk(c)
    \/ \E c \in Calls :
           page = "ChatInterface" /\ StreamEnd(c) /\ Resume(c, messages) /\ ChatFrame
    \/ \E c \in Calls, err \in PlainErrors :
           page = "ChatInterface" /\ StreamFail(c, err) /\ Resume(c, messages) /\ ChatFrame
    \/ \E c \in Calls, err \in PlainErrors :
           page = "ChatInterface" /\ AttemptFail(c, err) /\ Resume(c, messages) /\ ChatFrame

SpecChat == InitChat /\ [][NextChat]_vars

----------------------------------------------------------------------------
\* DocumentAnalyzer: handleAnalyze reads the file and, in the reader's
\* onloadend callback, awaits analyzeDocument.

SelectableFiles == { "notice.pdf", "fir.png" }

AnalyzerErrorText ==
    <<"**Error:** Failed to analyze document. Ensure it is a valid Image or Text file.">>

\* setAnalysis(result || ""); setIsAnalyzing(false): the statements after the
\* await in onloadend, reached only when analyzeDocument resolved. Nothing
\* catches a rejection there: the try block of handleAnalyze has been left.
AfterAnalyzeDocument(c) ==
    IF pc'[c] = "done" /\ result'[c].kind = "return"
    THEN /\ analysis' = <<result'[c].val>>
         /\ isAnalyzing' = FALSE
    ELSE UNCHANGED <<analysis, isAnalyzing>>

\* what a step of call c leaves alone in the component
AnalyzerFrame == UNCHANGED <<page, isLoading, abortControllerRef, chat, file, reader>>

InitAnalyzer ==
    /\ InitPool(MaxKeys)
    /\ OfflineIdle
    /\ page = "DocumentAnalyzer"
    /\ isLoading = FALSE /\ abortControllerRef = Null
    /\ ChatIdle
    /\ AnalyzerIdle

\* loadFile(selected), from the file input or a drop
loadFile(f) ==
    /\ page = "DocumentAnalyzer"
    /\ file # <<f>>
    /\ file' = <<f>>
    /\ analysis' = <<>>
    /\ UNCHANGED <<service, offline, page, isLoading, abortControllerRef, chat,
                   isAnalyzing, reader>>

\* handleClear
handleClear ==
    /\ page = "DocumentAnalyzer"
    /\ file # Null
    /\ file' = Null
    /\ analysis' = <<>>
    /\ UNCHANGED <<service, offline, page, isLoading, abortControllerRef, chat,
                   isAnalyzing, reader>>

\* handleAnalyze of the analyzer (its button is disabled while isAnalyzing): the
\* try block only starts the reader and installs the callback
analyzeClicked ==
    /\ page = "DocumentAnalyzer"
    /\ file # Null /\ ~isAnalyzing
    /\ isAnalyzing' = TRUE
    /\ reader' = "LOADING"
    /\ UNCHANGED <<service, offline, page, isLoading, abortControllerRef, chat,
                   file, analysis>>

\* reader.onloadend, up to its await: analyzeDocument is called
onloadend ==
    /\ page = "DocumentAnalyzer"
    /\ reader = "LOADING"
    /\ reader' = "EMPTY"
    /\ FreeCall # 0
    /\ Call(FreeCall, "analyzeDocument")
    /\ AfterAnalyzeDocument(FreeCall)
    /\ UNCHANGED <<page, isLoading, abortControllerRef, chat, file>>

\* generateContent resolves
AnalyzeResolves(c) ==
    page = "DocumentAnalyzer" /\ AttemptSucceed(c) /\ AfterAnalyzeDocument(c) /\ AnalyzerFrame

\* generateContent rejects
AnalyzeRejects(c, err) ==
    page = "DocumentAnalyzer" /\ AttemptFail(c, err) /\ AfterAnalyzeDocument(c) /\ AnalyzerFrame

\* the 300 ms pause of the rotation ends
AnalyzeRetries(c) ==
    page = "DocumentAnalyzer" /\ Retry(c) /\ AfterAnalyzeDocument(c) /\ AnalyzerFrame

\* onloadend has returned or thrown; the call's locals are gone
AnalyzeForget(c) == page = "DocumentAnalyzer" /\ Return(c) /\ UNCHANGED ui

NextAnalyzer ==
    \/ \E f \in SelectableFiles : loadFile(f)
    \/ handleClear
    \/ analyzeClicked
    \/ onloadend
    \/ \E c \in Calls : AnalyzeResolves(c)
    \/ \E c \in Calls, err \in PageErrors : AnalyzeRejects(c, err)
    \/ \E c \in Calls : AnalyzeRetries(c)
    \/ \E c \in Calls : AnalyzeForget(c)

SpecAnalyzer == InitAnalyzer /\ [][NextAnalyzer]_vars

\* The file is read, the provider answers every request, and the pause of the
\* rotation ends: the steps that do not wait for the user.
AnalyzerFairness ==
    /\ WF_vars(onloadend)
    /\ \A c \in Calls :
           /\ WF_vars(AnalyzeResolves(c) \/ \E err \in PageErrors : AnalyzeRejects(c, err))
           /\ WF_vars(AnalyzeRetries(c))
           /\ WF_vars(AnalyzeForget(c))

SpecAnalyzerLive == SpecAnalyzer /\ AnalyzerFairness

----------------------------------------------------------------------------
\* ChatInterface: the alternate views of a bot message (simplified, action
\* plan, jurisdiction). Optional fields of a message are fields the record
\* may lack.

Views == { "simplified", "actionPlan", "jurisdiction" }

\* the operation the handler of view v awaits
ViewOp(v) ==
    IF v = "simplified" THEN "simplifyLegalText"
    ELSE IF v = "actionPlan" THEN "generateActionPlan"
    ELSE "generateJurisdictionAnalysis"

ViewOf(o) == CHOOSE v \in Views : ViewOp(v) = o

TextField(v) ==
    IF v = "simplified" THEN "simplifiedText"
    ELSE IF v = "actionPlan" THEN "actionPlanText"
    ELSE "jurisdictionText"

BusyField(v) ==
    IF v = "simplified" THEN "isSimplifying"
    ELSE IF v = "actionPlan" THEN "isGeneratingPlan"
    ELSE "isGeneratingJurisdiction"

ShowField(v) ==
    IF v = "simplified" THEN "showSimplified"
    ELSE IF v = "actionPlan" THEN "showActionPlan"
    ELSE "showJurisdiction"

\* the views whose show flag the handler of view v sets to false: none in
\* handleSimplify, showSimplified in handleActionPlan, showSimplified and
\* showActionPlan in handleJurisdiction
HandlerClears(v) ==
    IF v = "simplified" THEN {}
    ELSE IF v = "actionPlan" THEN { "simplified" }
    ELSE { "simplified", "actionPlan" }

\* m.f as a condition, f a boolean field: the field is there and is true
Flag(m, f) == f \in DOMAIN m /\ m[f]

\* m.f as a condition, f a text field: the field is there and is not ''
HasText(m, f) == f \in DOMAIN m /\ m[f] # <<>>

\* { [ShowField(v)]: b, for v in vs }
ShowPatch(vs, b) == [f \in { ShowField(v) : v \in vs } |-> b]

ViewErrorText(v) == <<"**Error:** Could not ...", v>>

\* the message with id msgId in msgs
Find(msgs, msgId) == msgs[CHOOSE i \in DOMAIN msgs : msgs[i].id = msgId]

\* the buttons "Explain like I'm 10", "What should I do?", "Where to file?" of
\* message m: shown on a completed bot message that lacks the text, disabled
\* while it is generated
ViewButton(m, v) ==
    /\ m.role = "model" /\ ~Flag(m, "isLoading") /\ ~Flag(m, "isError")
    /\ m.text # <<>> /\ m.id[1] # "welcome"
    /\ ~HasText(m, TextField(v))
    /\ ~Flag(m, BusyField(v))

\* the handler of view v resumes after its await when call c has settled: the
\* catch block when it rejected, then the finally block
ViewResume(c, msgId, v, msgs) ==
    IF pc'[c] = "done"
    THEN messages' =
             Spread(IF result'[c].kind = "throw"
                    THEN Spread(msgs, msgId, (TextField(v) :> ViewErrorText(v)))
                    ELSE msgs,
                    msgId, (BusyField(v) :> FALSE))
    ELSE messages' = msgs

\* the answer the provider may stream to the request of a view
ViewResponses == { <<Hel>> }

\* the views are requested for the bot message of the first turn
ViewedId == <<"bot", 1>>

ViewFrame ==
    UNCHANGED <<page, isLoading, abortControllerRef, inputText, isListening,
                silenceTimer, accumulatedText, timeouts, toggleClosure, analyzer>>

\* handleSimplify / handleActionPlan / handleJurisdiction (msgId), up to the
\* await
handleView(v, msgId) ==
    /\ page = "ChatInterface"
    /\ \E i \in DOMAIN messages : messages[i].id = msgId /\ ViewButton(messages[i], v)
    /\ LET msg == Find(messages, msgId)
       IN  IF HasText(msg, TextField(v))
           THEN /\ messages' = Spread(messages, msgId,
                                      (ShowField(v) :> ~Flag(msg, ShowField(v)))
                                      @@ ShowPatch(HandlerClears(v), FALSE))
                /\ UNCHANGED <<service, offline>>
           ELSE /\ FreeCall # 0
                /\ Call(FreeCall, ViewOp(v))
                /\ ViewResume(FreeCall, msgId, v,
                       Spread(messages, msgId,
                              (BusyField(v) :> TRUE) @@ (ShowField(v) :> TRUE)
                              @@ (TextField(v) :> <<>>)
                              @@ ShowPatch(HandlerClears(v), FALSE)))
    /\ ViewFrame

\* the tab "Legal"
LegalTab(msgId) ==
    /\ page = "ChatInterface"
    /\ \E v \in Views : TextField(v) \in DOMAIN Find(messages, msgId)
    /\ messages' = Spread(messages, msgId, ShowPatch(Views, FALSE))
    /\ messages' # messages
    /\ UNCHANGED <<service, offline>>
    /\ ViewFrame

\* the tabs "Simple", "Action Plan", "Where to File"
ViewTab(v, msgId) ==
    /\ page = "ChatInterface"
    /\ TextField(v) \in DOMAIN Find(messages, msgId)
    /\ messages' = Spread(messages, msgId,
                          (ShowField(v) :> TRUE) @@ ShowPatch(Views \ {v}, FALSE))
    /\ messages' # messages
    /\ UNCHANGED <<service, offline>>
    /\ ViewFrame

\* The stream of call c yields a chunk; the handler's callback appends it.
ViewChunk(c) ==
    /\ page = "ChatInterface"
    /\ ReadChunk(c)
    /\ LET v == ViewOf(op[c])
           msg == Find(messages, ViewedId)
           sofar == IF HasText(msg, TextField(v)) THEN msg[TextField(v)] ELSE <<>>
       IN  ViewResume(c, ViewedId, v,
                      IF sink'[c] # sink[c]
                      THEN Spread(messages, ViewedId,
                                  (TextField(v) :> sofar \o response[c][pos[c] + 1]))
                      ELSE messages)
    /\ ViewFrame

\* Another step of call c, which the handler of ViewOf(op[c]) awaits.
ViewStep(c) ==
    /\ page = "ChatInterface"
    /\ ViewResume(c, ViewedId, ViewOf(op[c]), messages)
    /\ ViewFrame

InitViews ==
    /\ InitPool(StreamPool)
    /\ OfflineIdle
    /\ page = "ChatInterface"
    /\ isLoading = FALSE
    /\ abortControllerRef = Null
    /\ messages = << WELCOME_MSG, UserMsg(1, <<"q">>),
                     [text |-> Hel \o lo, isLoading |-> FALSE] @@ BotMsg(1) >>
    /\ inputText = <<>>
    /\ isListening = FALSE /\ silenceTimer = Null /\ accumulatedText = <<>>
    /\ timeouts = {} /\ toggleClosure = FALSE
    /\ AnalyzerIdle

NextViews ==
    \/ \E v \in Views : handleView(v, ViewedId)
    \/ LegalTab(ViewedId)
    \/ \E v \in Views : ViewTab(v, ViewedId)
    \/ \E c \in Calls : ViewChunk(c)
    \/ \E c \in Calls, resp \in ViewResponses : StreamOpen(c, resp) /\ ViewStep(c)
    \/ \E c \in Calls : StreamEnd(c) /\ ViewStep(c)
    \/ \E c \in Calls, err \in PlainErrors : StreamFail(c, err) /\ ViewStep(c)
    \/ \E c \in Calls, err \in PlainErrors : AttemptFail(c, err) /\ ViewStep(c)
    \/ \E c \in Calls : page = "ChatInterface" /\ Return(c) /\ UNCHANGED ui

SpecViews == InitViews /\ [][NextViews]_vars

----------------------------------------------------------------------------
\* Properties.

AllKeys == { API_KEYS[i] : i \in 1..N }

\* the failure is a rate limit that is not a cancellation (spec section 6)
RateLimit(err) ==
    /\ err # NoError
    /\ err.name # "AbortError"
    /\ \/ FieldIs(err, "status", 429)
       \/ FieldIs(err, "code", 429)
       \/ FieldIs(err, "httpStatusCode", 429)
       \/ MessageIncludes(err, Msg429)
       \/ MessageIncludes(err, MsgResourceExhausted)

\* C1: with a pool of N >= 1 and no other call in flight, a call whose every
\* attempt is rate-limited makes exactly N attempts, one per credential, and
\* then fails; no call ever makes an (N+1)-th attempt.
C1_RotationBound ==
    \A c \in Calls :
        N >= 1 =>
            /\ attempts[c] <= N
            /\ (pc[c] = "done" /\ triedKeys[c] = attempts[c]) =>
                   /\ attempts[c] = N
                   /\ usedKeys[c] = AllKeys
                   /\ outcome[c].kind = "throw"

\* a call that started on the second of three credentials, wrapped round and
\* was rate-limited on all three
C1_Witness ==
    \E c \in Calls :
        /\ N = 3 /\ pc[c] = "done" /\ startIndex[c] = 1
        /\ triedKeys[c] = 3 /\ attempts[c] = 3 /\ RateLimit(raised[c])

\* C2: once every credential of a non-empty pool has been rate-limited within
\* one call, the call fails with the distinct "all keys exhausted" error, not
\* with the provider's last rate-limit error.
C2_ExhaustedErrorIsDistinct ==
    \A c \in Calls :
        (N >= 1 /\ pc[c] = "done" /\ limitedKeys[c] = AllKeys) =>
            outcome[c] = Thrown(ExhaustedError)

\* a call that succeeded after k rate-limited attempts made k+1 attempts,
\* returns the result of attempt k+1, made with credential (start + k) mod N,
\* and the cursor is on that credential
C3_Success ==
    \A c \in Calls :
        (pc[c] = "done" /\ outcome[c].kind = "return") =>
            LET k == triedKeys[c]
                at == (startIndex[c] + k) % N
            IN  /\ k < N
                /\ attempts[c] = k + 1
                /\ outcome[c].val = [attempt |-> k + 1, key |-> API_KEYS[at + 1]]
                /\ currentKeyIndex = at

\* returning does not move the cursor, and a call starts on the cursor's
\* credential
C3_Sticky ==
    \A c \in Calls :
        /\ (pc[c] = "done" /\ pc'[c] = "idle") => currentKeyIndex' = currentKeyIndex
        /\ (pc[c] = "idle" /\ pc'[c] = "attempt") =>
               /\ startIndex'[c] = currentKeyIndex
               /\ apiKey'[c] = API_KEYS[currentKeyIndex + 1]

\* C3: with no other call in flight, a call whose first k attempts (k < N) are
\* rate-limited and whose attempt k+1 succeeds returns that attempt's result
\* after exactly k+1 attempts and leaves the cursor on the credential that
\* succeeded, (start + k) mod N; the cursor is not reset, so the next call
\* starts on that credential.
C3_SuccessPath == [](C3_Success) /\ [][C3_Sticky]_vars

\* pool [K1, K2, K3]: K1 and K2 rate-limited, K3 answers; cursor at K3
C3_Witness ==
    \E c \in Calls :
        /\ N = 3 /\ pc[c] = "done" /\ startIndex[c] = 0 /\ triedKeys[c] = 2
        /\ outcome[c] = Returned([attempt |-> 3, key |-> <<"K", 3>>])
        /\ limitedKeys[c] = { <<"K", 1>>, <<"K", 2>> }
        /\ currentKeyIndex = 2

\* C4: with no credential configured, a call fails at once with the
\* configuration error of getClient and makes no attempt.
C4_EmptyPoolConfigError ==
    \A c \in Calls :
        (N = 0 /\ pc[c] = "done") =>
            /\ attempts[c] = 0
            /\ outcome[c] = Thrown(ConfigError)

\* C5: with exactly one credential, a rate-limited call makes one attempt,
\* fails without waiting for a retry, and the cursor stays at 0.
C5_PoolOfOne ==
    N = 1 =>
        /\ currentKeyIndex = 0
        /\ \A c \in Calls :
               /\ pc[c] # "delay"
               /\ attempts[c] <= 1
               /\ (pc[c] = "done" /\ RateLimit(raised[c])) =>
                      /\ attempts[c] = 1
                      /\ outcome[c].kind = "throw"

C5_Witness ==
    \E c \in Calls :
        /\ N = 1 /\ pc[c] = "done" /\ RateLimit(raised[c])
        /\ triedKeys[c] = 1 /\ outcome[c].kind = "throw"

\* C6: with a non-empty pool the cursor is a valid index, whatever the
\* interleaving of the calls.
C6_CursorInRange == N >= 1 => currentKeyIndex \in 0..(N - 1)

\* two calls in flight have each rotated and the cursor has wrapped to 0
C6_Witness ==
    \E c, d \in Calls :
        /\ c # d /\ N = 2 /\ currentKeyIndex = 0
        /\ pc[c] = "delay" /\ pc[d] = "delay"
        /\ triedKeys[c] = 1 /\ triedKeys[d] = 1

\* an attempt of call c has just failed with err
Failed(c, err) == pc[c] = "attempt" /\ raised'[c] = err

\* the step that handles a failure that is neither a rate limit nor a
\* cancellation, and the steps of a finished call
C7_Step ==
    \A c \in Calls :
        /\ \A err \in ProviderErrors :
               (Failed(c, err) /\ err.name # "AbortError" /\ ~RateLimit(err)) =>
                   /\ pc'[c] = "done"
                   /\ attempts'[c] = attempts[c]
                   /\ currentKeyIndex' = currentKeyIndex
                   /\ outcome'[c] = Thrown(err)
                   /\ op[c] # "aiSearchJudgments" => result'[c] = Thrown(err)
        /\ pc[c] = "done" => pc'[c] \in {"done", "idle"}

\* C7: an attempt that fails with an error that is neither a rate limit nor a
\* cancellation ends the call at once: no further attempt, cursor unchanged,
\* withKeyRotation throws that same error, and every operation but
\* aiSearchJudgments throws it to its caller; a finished call makes no
\* further attempt.
C7_OtherErrorsPropagate == [][C7_Step]_vars

\* a network error after one rotation: the operation threw it, cursor at 1
C7_Witness ==
    \E c \in Calls :
        /\ pc[c] = "done" /\ op[c] = "analyzeDocument" /\ triedKeys[c] = 1
        /\ raised[c].name = "TypeError"
        /\ result[c] = Thrown(raised[c])
        /\ N = 3 /\ currentKeyIndex = (startIndex[c] + 1) % N

\* the step that handles a failure named AbortError
C8_Step ==
    \A c \in Calls : \A err \in ProviderErrors :
        (Failed(c, err) /\ err.name = "AbortError") =>
            /\ pc'[c] = "done"
            /\ outcome'[c] = Thrown(err)
            /\ currentKeyIndex' = currentKeyIndex
            /\ triedKeys'[c] = triedKeys[c]
            /\ attempts'[c] = attempts[c]

\* C8: an attempt that fails with an error named AbortError ends the call at
\* once with that same error: no retry, no cursor advance, also when the
\* error carries "429" in its message or a 429 status.
C8_AbortNeverRetried == [][C8_Step]_vars

\* a cancellation with a 429 status ended a call that had credentials left
C8_Witness ==
    \E c \in Calls :
        /\ pc[c] = "done" /\ N >= 2 /\ triedKeys[c] = 0
        /\ raised[c].name = "AbortError" /\ FieldIs(raised[c], "status", 429)
        /\ outcome[c] = Thrown(raised[c])

\* C9: an attempt is never made with a credential on which the same call has
\* already been rate-limited, whatever the other calls do to the cursor.
C9_RetryNeverRepeats ==
    \A c \in Calls : pc[c] = "attempt" => apiKey[c] \notin limitedKeys[c]

\* C10: a call that ends in a rate-limit failure has used every credential of
\* the pool, whatever the other calls do to the cursor.
C10_GivesUpAfterAllKeys ==
    \A c \in Calls :
        (pc[c] = "done" /\ outcome[c].kind = "throw" /\ RateLimit(raised[c])) =>
            usedKeys[c] = AllKeys

\* progress measure of a call: it drops with every step the call takes
Rank(c) ==
    CASE pc[c] = "idle" -> 2 * N + 2
      [] pc[c] = "attempt" -> 2 * (N - triedKeys[c])
      [] pc[c] = "delay" -> 2 * (N - triedKeys[c]) + 1
      [] OTHER -> 0

\* never more than N attempts, and a retry pause only after fewer than N
\* rate limits
C11_Bounds ==
    \A c \in Calls :
        /\ Rank(c) >= 0
        /\ N >= 1 =>
               /\ attempts[c] <= N
               /\ triedKeys[c] <= N
               /\ pc[c] = "delay" => triedKeys[c] <= N - 1

\* every step of a call lowers its measure, and the cursor moves only in a
\* step that takes some call into its retry pause and counts one more of its
\* rate limits
C11_Step ==
    /\ \A c \in Calls :
           (pc'[c] # pc[c] \/ triedKeys'[c] # triedKeys[c]
                \/ attempts'[c] # attempts[c]) =>
               Rank(c)' < Rank(c)
    /\ currentKeyIndex' # currentKeyIndex =>
           \E c \in Calls :
               /\ pc[c] = "attempt" /\ pc'[c] = "delay"
               /\ triedKeys'[c] = triedKeys[c] + 1

\* C11: every call ends after at most N attempts and at most N-1 cursor
\* advances of its own, whatever the other calls do and however often the
\* provider rate-limits, provided each attempt ends.
C11_RetryBounded == [](C11_Bounds) /\ [][C11_Step]_vars

\* two interleaved calls, each rate-limited on every attempt, both ended after
\* N = 2 attempts although one of them never reached the second credential
C11_Witness ==
    \E c, d \in Calls :
        /\ c # d /\ N = 2
        /\ pc[c] = "done" /\ attempts[c] = 2 /\ triedKeys[c] = 2
        /\ pc[d] = "done" /\ attempts[d] = 2 /\ triedKeys[d] = 2
        /\ usedKeys[c] # AllKeys

\* a call that was cancelled in flight and has settled
Cancelled(c) == pc[c] = "done" /\ aborted[c]

IsAbortRejection(r) == r.kind = "throw" /\ r.err.name = "AbortError"

\* C12: once the abort signal of a streaming call is triggered, no step ever
\* adds a chunk to its sink (so a signal triggered before the first fragment
\* leaves the sink empty, whatever the stream still yields).
C12_NoChunkAfterCancel ==
    [][\A c \in Calls : aborted[c] => sink'[c] = sink[c]]_vars

\* chunks <<Hel, lo>>, cancelled after Hel was delivered: lo was read and
\* dropped, the sink holds exactly <<Hel>>
C12_Witness ==
    /\ Cancelled(1) /\ op[1] \in StreamOps
    /\ response[1] = <<Hel, lo>> /\ pos[1] = 2
    /\ sink[1] = <<Hel>>

\* C13: a call of an operation that takes an abort signal, cancelled while in
\* flight, settles by rejecting with the AbortError, never by resolving.
C13_CancelledRejects ==
    \A c \in Calls :
        Cancelled(c) /\ op[c] \in CancellableOps => IsAbortRejection(result[c])

\* C14: when a streaming call resolves without having been cancelled, the
\* chunks its sink received over all attempts, joined in order, are the text
\* of the stream the call read to its end.
C14_DeliveryExact ==
    \A c \in Calls :
        pc[c] = "done" /\ op[c] \in StreamOps /\ ~aborted[c]
        /\ result[c].kind = "return"
        => Concat(sink[c]) = Concat(response[c])

\* C15: once the abort signal of a call is triggered, the call never again
\* starts waiting for a provider call (stream-open or generate).
C15_NoProviderCallAfterCancel ==
    [][\A c \in Calls :
          aborted[c] /\ pc[c] # "attempt" => pc'[c] # "attempt"]_vars

\* C16: analyzeJudgment cancelled during streaming rejects with the AbortError;
\* it returns null only for a call that was not cancelled and whose complete
\* response does not parse.
C16_CancelIsNotParseFailure ==
    \A c \in Calls :
        pc[c] = "done" /\ op[c] = "analyzeJudgment" =>
            /\ aborted[c] => IsAbortRejection(result[c])
            /\ result[c] = Returned(JsNull) =>
                   /\ ~aborted[c]
                   /\ ParseJudgment(Concat(response[c])) = JsNull

\* the text after the first marker of raw, '' when raw has no marker
AfterFirstMarker(raw) ==
    LET occ == Occurrences(raw, Marker)
        i == CHOOSE x \in occ : \A y \in occ : x <= y
    IN  IF occ = {} THEN <<>> ELSE SubSeq(raw, i + Len(Marker), Len(raw))

\* the text before the first marker of raw, all of raw when it has no marker
BeforeFirstMarker(raw) ==
    LET occ == Occurrences(raw, Marker)
        i == CHOOSE x \in occ : \A y \in occ : x <= y
    IN  IF occ = {} THEN raw ELSE SubSeq(raw, 1, i - 1)

HasFence(s) == \E i \in 1..Len(s) : s[i] = BQ

\* C18: generateLegalFlowchart returns as explanation the trimmed text after
\* the first marker ('' without a marker) and as mermaid the trimmed text
\* before it (the whole response without a marker), so that no text after the
\* first marker is lost and 'A\n---EXPLANATION---\nB' gives {A, B}.
C18_FlowchartSplitLaw ==
    \A c \in Calls :
        pc[c] = "done" /\ op[c] = "generateLegalFlowchart"
        /\ result[c].kind = "return" =>
            LET raw == response[c][1]
            IN  /\ result[c].val.explanation = Trim(AfterFirstMarker(raw))
                /\ ~HasFence(raw) =>
                       result[c].val.mermaid = Trim(BeforeFirstMarker(raw))

IsStringList(v) ==
    /\ v.type = "array"
    /\ \A i \in 1..Len(v.items) : v.items[i].type = "string"

\* C19: aiSearchJudgments never rejects, and what it resolves with is a list
\* of strings (the empty one after a provider failure or an answer that is
\* not a JSON array of strings).
C19_SearchNeverBreaks ==
    \A c \in Calls :
        pc[c] = "done" /\ op[c] = "aiSearchJudgments" =>
            /\ result[c].kind = "return"
            /\ IsStringList(result[c].val)
            /\ outcome[c].kind = "throw" => result[c].val = JsArray(<<>>)

\* the response is the JSON text alone or inside a fenced block (``` or
\* ```json), with white space around it at most
WellWrapped(in) ==
    \/ in.open = <<>> /\ in.close = <<>>
    \/ /\ in.open \in { Fence, Fence \o <<"\n">>, Fence \o <<"j","s","o","n">>,
                        Fence \o <<"j","s","o","n","\n">> }
       /\ in.close # <<>>

\* C17: for a complete response that is a JSON object, bare or in a fenced
\* block, the parse step returns exactly that object; for a text that is not
\* JSON it returns null; it throws nothing and what it returns is never
\* anything but null or the whole value the text denotes.
C17_ParseLaw ==
    output # Pending =>
        LET json == Bodies[input.body].json
        IN  /\ output.kind = "return"
            /\ WellWrapped(input) /\ json.valid /\ json.val.type = "object"
                   => output.val = json.val
            /\ ~json.valid => output.val = JsNull
            /\ output.val \in { JsNull, json.val }

\* a nested object inside a ```json block with white space around it
C17_Witness ==
    /\ output # Pending
    /\ input.body = 3 /\ input.open = Fence \o <<"j","s","o","n","\n">>
    /\ input.close = <<"\n">> \o Fence /\ input.lead = <<"\n">>
    /\ output.val = Bodies[3].json.val

\* the positions of the listing whose .pdf file derives identifier id
Deriving(id) ==
    { k \in 1..Len(dir) : EndsWithPdf(dir[k]) /\ parseFilename(dir[k]).id = id }

\* C20: in the emitted index the identifiers are pairwise distinct, each
\* record is that of the first listed file deriving its identifier (and every
\* derived identifier has its record), and totalCases counts the records.
C20_IndexDedup ==
    index # <<>> =>
        LET ix == index[1]
            n == Len(ix.cases)
        IN  /\ \A i, j \in 1..n : i # j => ix.cases[i].id # ix.cases[j].id
            /\ \A i \in 1..n :
                   LET ks == Deriving(ix.cases[i].id)
                   IN  /\ ks # {}
                       /\ ix.cases[i].filename =
                              dir[CHOOSE k \in ks : \A m \in ks : k <= m]
            /\ \A k \in 1..Len(dir) :
                   EndsWithPdf(dir[k]) =>
                       \E i \in 1..n : ix.cases[i].id = parseFilename(dir[k]).id
            /\ ix.totalCases = n

\* three .pdf files were listed, a later one derived the identifier of an
\* earlier one, and the index holds two records
C20_Witness ==
    /\ index # <<>>
    /\ Len(files) = 3 /\ Len(index[1].cases) = 2
    /\ \E k \in 1..Len(dir) : Cardinality(Deriving(parseFilename(dir[k]).id)) = 2

\* C21: the emitted records are in descending order of year, every record
\* without a year after every record with one, records of one year in the
\* order of their case numbers; years holds each year of the records once,
\* in descending order.
C21_IndexOrdering ==
    index # <<>> =>
        LET cs == index[1].cases
            ys == index[1].years
            n == Len(cs)
        IN  /\ \A i, j \in 1..n :
                   i < j =>
                       /\ cs[i].year = Null => cs[j].year = Null
                       /\ cs[i].year # Null /\ cs[j].year # Null
                              => cs[i].year[1] >= cs[j].year[1]
                       /\ cs[i].year = cs[j].year
                              => localeCompare(cs[i].caseNo, cs[j].caseNo) <= 0
            /\ \A k, l \in 1..Len(ys) : k < l => ys[k] > ys[l]
            /\ { ys[k] : k \in 1..Len(ys) }
                   = { cs[i].year[1] : i \in { m \in 1..n : cs[m].year # Null } }

\* what the claim calls a rate limit: status, code or httpStatusCode is 429,
\* or the message contains "429" or "RESOURCE_EXHAUSTED"
ClaimedRateLimit(err) ==
    \/ \E f \in {"status", "code", "httpStatusCode"} :
           f \in DOMAIN err /\ err[f] = 429
    \/ /\ "message" \in DOMAIN err
       /\ \E i \in 1..Len(err.message) :
              \/ LiteralAt(err.message, i, <<"4", "2", "9">>)
              \/ LiteralAt(err.message, i, MsgResourceExhausted)

\* the error an attempt raised is classified as the claim says
C22_Classified ==
    \A c \in Calls :
        raised[c] # NoError => (is429Error(raised[c]) <=> ClaimedRateLimit(raised[c]))

\* the step that handles a failed attempt retries only what the claim calls
\* a rate limit, and ends the call with the error itself otherwise
C22_Step ==
    \A c \in Calls : \A err \in ErrorShapes :
        Failed(c, err) =>
            /\ pc'[c] = "delay" => ClaimedRateLimit(err)
            /\ ClaimedRateLimit(err) /\ triedKeys[c] + 1 < N => pc'[c] = "delay"
            /\ ~ClaimedRateLimit(err) =>
                   /\ pc'[c] = "done" /\ outcome'[c] = Thrown(err)
                   /\ attempts'[c] = attempts[c]

\* C22: is429Error holds of an error exactly when its status, code or
\* httpStatusCode is 429 or its message contains "429" or
\* "RESOURCE_EXHAUSTED"; any other error, one without a message included,
\* is not a rate limit and is never retried.
C22_RateLimitClassification == [](C22_Classified) /\ [][C22_Step]_vars

\* a first attempt was retried as rate-limited, the second failed with an
\* error that has no field at all and ended the call
C22_Witness ==
    /\ pc[1] = "done" /\ attempts[1] = 2 /\ limitedKeys[1] # {}
    /\ raised[1] = [name |-> "Error"]
    /\ outcome[1] = Thrown([name |-> "Error"])

\* the upper-cased names the directive is to carry, code by code (the name of
\* the language for the codes of the table, the code itself for the others)
ExpectedLanguage ==
    << <<<<"h","i">>, <<"H","I","N","D","I">>>>,
       <<<<"b","n">>, <<"B","E","N","G","A","L","I">>>>,
       <<<<"t","a">>, <<"T","A","M","I","L">>>>,
       <<<<"t","e">>, <<"T","E","L","U","G","U">>>>,
       <<<<"m","r">>, <<"M","A","R","A","T","H","I">>>>,
       <<<<"g","u">>, <<"G","U","J","A","R","A","T","I">>>>,
       <<<<"k","n">>, <<"K","A","N","N","A","D","A">>>>,
       <<<<"m","l">>, <<"M","A","L","A","Y","A","L","A","M">>>>,
       <<<<"p","a">>, <<"P","U","N","J","A","B","I">>>>,
       <<<<"u","r">>, <<"U","R","D","U">>>>,
       <<<<"f","r">>, <<"F","R">>>>,
       <<<<"E","N">>, <<"E","N">>>>,
       <<<<"e","n","-","I","N">>, <<"E","N","-","I","N">>>> >>

C25_ParsedTextOfOneAttempt ==
    \A c \in Calls :
        pc[c] = "done" /\ op[c] = "analyzeJudgment" /\ ~aborted[c]
        /\ result[c].kind = "return"
        => fullResponse[c] = Concat(response[c])

\* C24: the children are rendered only when the identity provider has
\* finished loading and a user is present; while it loads the placeholder is
\* rendered; when it has finished with no user the component redirects to
\* /login carrying the requested location, and the children are not rendered.
C24_RouteGating ==
    output # Pending =>
        /\ output.val = Children => ~input.loading /\ input.user # Null
        /\ input.loading => output.val = LoadingPlaceholder
        /\ ~input.loading /\ input.user = Null =>
               /\ output.val.element = "Navigate"
               /\ output.val.to = "/login"
               /\ output.val.state.from = input.location

\* a visitor without a user asked for /chat after loading finished: redirected
\* to /login with /chat remembered
C24_Witness ==
    /\ output # Pending
    /\ ~input.loading /\ input.user = Null /\ input.location = "/chat"
    /\ output.val = Navigate("/login", "/chat")

\* C26: on the pages ScamCheck, CaseStudies and SnapSolve, whenever a request
\* is awaited whose signal has not been aborted, isLoading is true and
\* abortControllerRef holds the controller of that request (so that handleStop
\* aborts it): the completion of an earlier, stopped request clears neither.
C26_StopReachesRunningRequest ==
    page \in Pages =>
        \A c \in Calls :
            Awaited(c) /\ ~aborted[c] => isLoading /\ abortControllerRef = <<c>>

\* the bot message handleSend created for call c
BotMessageOf(c) ==
    LET hits == { i \in DOMAIN messages : messages[i].id = <<"bot", c>> }
    IN  messages[CHOOSE i \in hits : TRUE]

\* C28: whenever a handleSend call has finished (normally, by user stop or by
\* failure) the bot message it created has isLoading = false and, no other
\* call being awaited, isLoading is false and abortControllerRef is null; and
\* once the user stopped a request no chunk is appended to its bot message.
C28_ChatTurnCompletion ==
    /\ [](page = "ChatInterface" =>
            \A c \in Calls :
                pc[c] = "done" =>
                    /\ ~BotMessageOf(c).isLoading
                    /\ (\A d \in Calls : ~Awaited(d)) =>
                           ~isLoading /\ abortControllerRef = Null)
    /\ [][page = "ChatInterface" =>
             \A c \in Calls :
                 aborted[c] /\ pc[c] # "idle" =>
                     BotMessageOf(c).text = BotMessageOf(c).text']_vars

\* C29: in ChatInterface at most one streamChatResponse call is awaited at any
\* time: a handleSend triggered while an earlier request has not finished
\* starts no request and adds no message.
C29_OneChatRequest ==
    page = "ChatInterface" =>
        \A c, d \in Calls : Awaited(c) /\ Awaited(d) => c = d

\* C27: after handleAnalyze of DocumentAnalyzer was invoked with a file,
\* isAnalyzing eventually returns to false, whether analyzeDocument succeeds or
\* fails; and when it has failed the error message is shown as the analysis.
C27_AnalysisLeavesBusyState ==
    /\ (page = "DocumentAnalyzer" /\ isAnalyzing) ~> ~isAnalyzing
    /\ [](page = "DocumentAnalyzer" =>
            \A c \in Calls :
                pc[c] = "done" /\ result[c].kind = "throw" =>
                    analysis = AnalyzerErrorText)

\* C30: for every chat message, after any sequence of handleSimplify,
\* handleActionPlan, handleJurisdiction and view-tab clicks, at most one of
\* showSimplified, showActionPlan and showJurisdiction is true.
C30_OneAlternateView ==
    page = "ChatInterface" =>
        \A i \in DOMAIN messages :
            Cardinality({ v \in Views : Flag(messages[i], ShowField(v)) }) <= 1

====
